---- MODULE Spec2Model ----
(***************************************************************************)
(* Log enricher (ingest loop + aggregator + RPC surface) and the log-mode  *)
(* collection of the profile recorder of the security-profiles-operator.   *)
(*                                                                         *)
(* The aggregator is the pair of sync.Map fields Enricher.syscalls and     *)
(* Enricher.avcs.  Each value is a sets.String, a plain Go map that the    *)
(* ingest loop mutates in place (Insert) without any lock, while the RPC   *)
(* handlers run on the goroutines of the GRPC server.                      *)
(***************************************************************************)
EXTENDS Integers, Sequences, FiniteSets, TLC

----------------------------------------------------------------------------
(* Bounds of the model. *)

\* number of tail records the ingest loop consumes
MaxLines == 2
\* number of RPCs an arbitrary client of the enricher issues
MaxRpcs == 2
\* number of log-mode collections the recorder starts
MaxCollects == 2

----------------------------------------------------------------------------
(* Strings and their order. *)

\* every string the model compares, in ascending lexicographic (byte) order
Lexicon ==
    << "", "::", "a_usage_t", "bin_t", "close", "container_t", "dir", "file", "my_usage_t",
       "read", "selinuxrecording.process", "system_u:object_r",
       "system_u:object_r:bin_t", "system_u:object_r:bin_t:s0",
       "system_u:system_r:container_t:s0",
       "system_u:system_r:selinuxrecording.process:s0", "write" >>

RECURSIVE IndexOf(_, _, _)
IndexOf(seq, x, i) ==
    IF i > Len(seq) THEN 0
    ELSE IF seq[i] = x THEN i
    ELSE IndexOf(seq, x, i + 1)

\* a < b for two strings (Go's string comparison, used by sort.Strings)
StrLess(a, b) == IndexOf(Lexicon, a, 1) < IndexOf(Lexicon, b, 1)

\* A Go string held by the aggregator is modelled as the sequence of its
\* tokens: <<name>> for a syscall name, the fields of a serialized AVC in
\* the order they are written, <<>> for the empty string.  a < b compares
\* two such strings token by token, a proper prefix being the smaller.
RECURSIVE SeqLess(_, _)
SeqLess(a, b) ==
    IF b = <<>> THEN FALSE
    ELSE IF a = <<>> THEN TRUE
    ELSE IF Head(a) = Head(b) THEN SeqLess(Tail(a), Tail(b))
    ELSE StrLess(Head(a), Head(b))

----------------------------------------------------------------------------
(* sets.String *)

\* sets.String.List(): the elements, sorted ascending
RECURSIVE List(_)
List(s) ==
    IF s = {} THEN <<>>
    ELSE LET m == CHOOSE x \in s : \A y \in s \ {x} : SeqLess(x, y)
         IN  <<m>> \o List(s \ {m})

----------------------------------------------------------------------------
(* Data model. *)

\* ProfileId values a container can record under; "" means not recording
Profiles == {"p1-0", "p2-0"}
NoProfile == ""

\* the syscall-id -> name table of the node's architecture (x86_64 excerpt)
SyscallTable == (0 :> "read") @@ (1 :> "write") @@ (3 :> "close")
UnknownSyscallIDs == {99999}
SyscallIDs == DOMAIN SyscallTable \cup UnknownSyscallIDs

\* syscallName(id): the name, or an error for an id the table lacks
syscallName(id) ==
    IF id \in DOMAIN SyscallTable
    THEN [name |-> SyscallTable[id], err |-> FALSE]
    ELSE [name |-> "", err |-> TRUE]

\* a field value that is not valid UTF-8 (protojson refuses to encode it)
InvalidUTF8 == "\\xff"

AvcFields == <<"perm", "scontext", "tcontext", "tclass">>

NewAvc(perm, tcontext) ==
    [perm |-> perm, scontext |-> "system_u:system_r:container_t:s0",
     tcontext |-> tcontext, tclass |-> "file"]

\* the AVCs the audit log carries in this model: a well-formed one, one
\* whose target context is a bare type, one whose perm is not valid UTF-8
AvcInputs ==
    { NewAvc("read", "system_u:object_r:bin_t:s0"),
      NewAvc("read", "bin_t"),
      NewAvc(InvalidUTF8, "system_u:object_r:bin_t:s0") }
NoAvc == NewAvc("", "")

\* protojson.Marshal of an AvcResponse_SelinuxAvc: the fields in their
\* declared order; an error and no bytes when a field is not valid UTF-8
Marshal(avc) ==
    IF \E i \in DOMAIN AvcFields : avc[AvcFields[i]] = InvalidUTF8
    THEN [bytes |-> <<>>, err |-> TRUE]
    ELSE [bytes |-> [i \in DOMAIN AvcFields |-> avc[AvcFields[i]]],
          err |-> FALSE]

\* protojson.Unmarshal: the inverse of Marshal; fails on anything else
Unmarshal(bytes) ==
    IF Len(bytes) = Len(AvcFields)
    THEN [avc |-> [perm |-> bytes[1], scontext |-> bytes[2],
                   tcontext |-> bytes[3], tclass |-> bytes[4]],
          err |-> FALSE]
    ELSE [avc |-> NoAvc, err |-> TRUE]

----------------------------------------------------------------------------
(* sync.Map holding a sets.String per key: a function whose domain is the *)
(* set of stored keys.                                                     *)

EmptyMap == [k \in {} |-> {}]

\* sets.NewString()
NewString == {}

\* a LoadOrStore that stores the new set over the one already stored
LoadOrStore_Overwrite(m, k) ==
    [q \in DOMAIN m \cup {k} |-> IF q = k THEN NewString ELSE m[q]]

\* m.LoadOrStore(k, sets.NewString()): stores an empty set when k is missing
LoadOrStore(m, k) ==
    IF k \in DOMAIN m THEN m
    ELSE [q \in DOMAIN m \cup {k} |-> IF q = k THEN NewString ELSE m[q]]

\* an Insert that reaches the sets of all stored keys
Insert_AllKeys(m, k, v) == [q \in DOMAIN m |-> m[q] \cup {v}]

\* the sets.String stored under k gets v (Insert on the loaded set)
Insert(m, k, v) ==
    IF k \in DOMAIN m THEN [m EXCEPT ![k] = @ \cup {v}] ELSE m

\* m.Delete(k)
Delete(m, k) == [q \in DOMAIN m \ {k} |-> m[q]]

\* m.Load(k): the stored set and whether k is stored
Load(m, k) ==
    IF k \in DOMAIN m THEN [value |-> m[k], ok |-> TRUE]
    ELSE [value |-> NewString, ok |-> FALSE]

----------------------------------------------------------------------------
(* Tail records.  A record carries the text of the line as the parser sees *)
(* it and the answers of the collaborators consulted for it (PID lookup,   *)
(* container info lookup, metrics stream).                                 *)

BaseLine ==
    [err |-> FALSE, audit |-> TRUE, extract |-> TRUE, cid |-> "ok",
     info |-> TRUE, type |-> "seccomp", profile |-> NoProfile,
     systemCallID |-> 0, avc |-> NoAvc, sendErr |-> FALSE]

NoLine == [BaseLine EXCEPT !.type = "none"]

\* records the loop skips before dispatch: a tail error, not an audit line,
\* failed field extraction, PID not a container / lookup error, no info
SkippedLines ==
    { [BaseLine EXCEPT !.err = TRUE],
      [BaseLine EXCEPT !.audit = FALSE],
      [BaseLine EXCEPT !.extract = FALSE],
      [BaseLine EXCEPT !.cid = "notexist"],
      [BaseLine EXCEPT !.cid = "error"],
      [BaseLine EXCEPT !.info = FALSE] }

SeccompLines ==
    { [BaseLine EXCEPT !.profile = p, !.systemCallID = i, !.sendErr = e] :
        p \in Profiles \cup {NoProfile}, i \in SyscallIDs, e \in BOOLEAN }

SelinuxLines ==
    { [BaseLine EXCEPT !.type = "selinux", !.profile = p, !.avc = a] :
        p \in Profiles \cup {NoProfile}, a \in AvcInputs }

\* attributed audit lines of a type that is neither seccomp nor AVC
OtherLines ==
    { [BaseLine EXCEPT !.type = "other", !.profile = p] :
        p \in Profiles \cup {NoProfile} }

Lines == SkippedLines \cup SeccompLines \cup SelinuxLines \cup OtherLines

----------------------------------------------------------------------------
(* Dispatch of one attributed line, as a function of the line: the metrics *)
(* sent through SendMetric (the syscall names, in order) and the insert    *)
(* the line asks for (map, key, value), if any.                            *)

NoIns == [map |-> "none", key |-> NoProfile, val |-> <<>>]
NoDispatch == [sends |-> <<>>, ins |-> NoIns, err |-> FALSE]

dispatchSelinuxLine(l) ==
    IF l.profile # NoProfile
    THEN \* a Marshal error is logged and the (empty) bytes are inserted
         [sends |-> <<>>,
          ins |-> [map |-> "avcs", key |-> l.profile,
                   val |-> Marshal(l.avc).bytes],
          err |-> FALSE]
    ELSE NoDispatch

\* a dispatch that goes on after syscallName failed
dispatchSeccompLine_NoReturn(l) ==
    LET r == syscallName(l.systemCallID) IN
    [sends |-> <<r.name>>,
     ins |-> IF l.profile # NoProfile
             THEN [map |-> "syscalls", key |-> l.profile, val |-> <<r.name>>]
             ELSE NoIns,
     err |-> FALSE]

\* a dispatch that returns when SendMetric failed
dispatchSeccompLine_SendFatal(l) ==
    LET r == syscallName(l.systemCallID) IN
    IF r.err THEN NoDispatch
    ELSE [sends |-> <<r.name>>,
          ins |-> IF l.profile # NoProfile /\ ~l.sendErr
                  THEN [map |-> "syscalls", key |-> l.profile,
                        val |-> <<r.name>>]
                  ELSE NoIns,
          err |-> FALSE]

dispatchSeccompLine(l) ==
    LET r == syscallName(l.systemCallID) IN
    IF r.err THEN NoDispatch
    ELSE \* SendMetric is called once; its error is logged only
         [sends |-> <<r.name>>,
          ins |-> IF l.profile # NoProfile
                  THEN [map |-> "syscalls", key |-> l.profile,
                        val |-> <<r.name>>]
                  ELSE NoIns,
          err |-> FALSE]

\* a dispatch that treats every type but SELinux as seccomp
dispatchAuditLine_NoDefault(l) ==
    IF l.type = "selinux" THEN dispatchSelinuxLine(l)
    ELSE dispatchSeccompLine(l)

dispatchAuditLine(l) ==
    CASE l.type = "selinux" -> dispatchSelinuxLine(l)
      [] l.type = "seccomp" -> dispatchSeccompLine(l)
      [] OTHER -> [NoDispatch EXCEPT !.err = TRUE]

\* guards that let a line without container info through to dispatch
Attributed_NoInfoCheck(l) ==
    /\ ~l.err
    /\ l.audit
    /\ l.extract
    /\ l.cid = "ok"

\* the guards of the loop body of Run that `continue` before dispatch
Attributed(l) ==
    /\ ~l.err
    /\ l.audit
    /\ l.extract
    /\ l.cid = "ok"
    /\ l.info

\* one iteration of the loop of Run
RunBody(l) == IF Attributed(l) THEN dispatchAuditLine(l) ELSE NoDispatch

\* a loop that logs every failed container id lookup, also a not-exist
RunLog_LogNotExist(l) ==
    IF ~l.err /\ l.audit /\ l.extract /\ l.cid # "ok"
    THEN << "unable to get container ID" >>
    ELSE <<>>

\* the error-level log messages of one iteration (e.logger.Error), in order
RunLog(l) ==
    IF l.err THEN << "failed to tail" >>
    ELSE IF ~l.audit THEN <<>>
    ELSE IF ~l.extract THEN << "extract seccomp details from audit line" >>
    ELSE IF l.cid = "notexist" THEN <<>>
    ELSE IF l.cid # "ok" THEN << "unable to get container ID" >>
    ELSE IF ~l.info THEN << "container ID not found in cluster" >>
    ELSE IF dispatchAuditLine(l).err THEN << "dispatch audit line" >>
    ELSE IF l.type = "selinux"
    THEN IF l.profile # NoProfile /\ Marshal(l.avc).err
         THEN << "marshall protobuf" >> ELSE <<>>
    ELSE IF ~syscallName(l.systemCallID).err /\ l.sendErr
         THEN << "unable to update metrics" >> ELSE <<>>

----------------------------------------------------------------------------
(* RPC handlers of the enricher, as functions of the map they serve. *)

\* Syscalls(profile): the sorted names; a missing profile gives the empty list
Syscalls(m, p) ==
    LET l == List(Load(m, p).value)
    IN  [list |-> [i \in DOMAIN l |-> Head(l[i])], err |-> FALSE]

\* Avcs(profile): the stored AVCs as structured records
Avcs(m, p) ==
    LET l == List(Load(m, p).value)
        u == [i \in DOMAIN l |-> Unmarshal(l[i])]
    IN  IF \E i \in DOMAIN u : u[i].err
        THEN [list |-> <<>>, err |-> TRUE]
        ELSE [list |-> [i \in DOMAIN u |-> u[i].avc], err |-> FALSE]

\* a reset that clears the whole map
ResetSyscalls_Clear(m, p) == [m |-> EmptyMap, err |-> FALSE]

\* a reset that answers NotFound for a profile that is not stored
ResetSyscalls_NotFound(m, p) ==
    IF p \in DOMAIN m THEN [m |-> Delete(m, p), err |-> FALSE]
    ELSE [m |-> m, err |-> TRUE]

\* ResetSyscalls(profile): removes the set of the profile; acknowledged
ResetSyscalls(m, p) == [m |-> Delete(m, p), err |-> FALSE]

\* ResetAvcs(profile): removes the set of the profile; acknowledged
ResetAvcs(m, p) == [m |-> Delete(m, p), err |-> FALSE]

----------------------------------------------------------------------------
(* Policy builder of the recorder (seProfileBuilder). *)

seContextRequiredParts == 3

\* the sentinel type of a target that is the recorded workload itself
SelinuxPermissiveProfile == "selinuxrecording.process"

\* the contexts of this model as their colons and the text between them
Tokens(ctx) ==
    CASE ctx = "" -> <<>>
      [] ctx = "::" -> << ":", ":" >>
      [] ctx = "system_u:object_r" -> << "system_u", ":", "object_r" >>
      [] ctx = "system_u:object_r:bin_t"
            -> << "system_u", ":", "object_r", ":", "bin_t" >>
      [] ctx = "system_u:object_r:bin_t:s0"
            -> << "system_u", ":", "object_r", ":", "bin_t", ":", "s0" >>
      [] ctx = "system_u:system_r:container_t:s0"
            -> << "system_u", ":", "system_r", ":", "container_t", ":",
                  "s0" >>
      [] ctx = "system_u:system_r:selinuxrecording.process:s0"
            -> << "system_u", ":", "system_r", ":",
                  "selinuxrecording.process", ":", "s0" >>
      [] OTHER -> << ctx >>

\* strings.Split: the texts between the separators, one more than there
\* are separators
RECURSIVE Split(_, _)
Split(tokens, sep) ==
    IF tokens = <<>> THEN << "" >>
    ELSE LET rest == Split(Tail(tokens), sep)
         IN  IF Head(tokens) = sep THEN << "" >> \o rest
             ELSE << Head(tokens) \o Head(rest) >> \o Tail(rest)

\* strings.Split(ctx, ":")
SplitContext(ctx) == Split(Tokens(ctx), ":")

\* a ctxt2type that takes the last field of the context
ctxt2type_LastField(ctx) ==
    LET elems == SplitContext(ctx)
    IN  IF Len(elems) < seContextRequiredParts
        THEN [type |-> "", err |-> TRUE]
        ELSE [type |-> elems[Len(elems)], err |-> FALSE]

ctxt2type(ctx) ==
    LET elems == SplitContext(ctx)
    IN  IF Len(elems) < seContextRequiredParts
        THEN [type |-> "", err |-> TRUE]
        ELSE [type |-> elems[3], err |-> FALSE]

newSeProfileBuilder(usageCtx) ==
    [permMap |-> [k \in {} |-> {}], keys |-> <<>>, usageCtx |-> usageCtx]

\* key := avc.Tclass + " " + ctxType, kept as its two space-separated tokens
addAvc(sb, avc) ==
    LET t == ctxt2type(avc.tcontext)
        key == << avc.tclass, t.type >>
    IN  IF t.err THEN [sb |-> sb, err |-> TRUE]
        ELSE [sb |-> [sb EXCEPT
                        !.keys = Append(@, key),
                        !.permMap =
                            [k \in DOMAIN @ \cup {key} |->
                                IF k \in DOMAIN @ /\ k # key THEN @[k]
                                ELSE IF k \in DOMAIN @
                                     THEN @[k] \cup {avc.perm}
                                     ELSE {avc.perm}]],
              err |-> FALSE]

RECURSIVE AddAvcList(_, _)
AddAvcList(sb, list) ==
    IF list = <<>> THEN [sb |-> sb, err |-> FALSE]
    ELSE LET r == addAvc(sb, Head(list))
         IN  IF r.err THEN r ELSE AddAvcList(r.sb, Tail(list))

\* a sort that leaves the slice as it is
SortStrings_Keep(seq) == seq

\* sort.Strings on a slice, duplicates kept
RECURSIVE SortStrings(_)
SortStrings(seq) ==
    IF seq = <<>> THEN <<>>
    ELSE LET i == CHOOSE i \in DOMAIN seq :
                      \A j \in DOMAIN seq : ~SeqLess(seq[j], seq[i])
             rest == [j \in 1 .. Len(seq) - 1 |->
                         IF j < i THEN seq[j] ELSE seq[j + 1]]
         IN  << seq[i] >> \o SortStrings(rest)

\* a targetClassCtx that leaves the sentinel type in place
targetClassCtx_Keep(sb, key) == [tclass |-> key[1], tcontext |-> key[2]]

targetClassCtx(sb, key) ==
    [tclass |-> key[1],
     tcontext |-> IF key[2] = SelinuxPermissiveProfile THEN sb.usageCtx
                  ELSE key[2]]

\* a policyLine that writes a rule without permissions
policyLine_AllowNothing(tclass, tcontext, perms) ==
    LET permsList == List({ << x >> : x \in perms })
    IN  [line |-> << "allow", tcontext, tclass,
                     [i \in DOMAIN permsList |-> Head(permsList[i])] >>,
         err |-> FALSE]

\* one "(allow process <tcontext> ( <tclass> ( <perms> )))" line; a nil
\* sets.String is the empty set
policyLine(tclass, tcontext, perms) ==
    IF perms = {} THEN [line |-> <<>>, err |-> TRUE]
    ELSE LET permsList == List({ << x >> : x \in perms })
         IN  [line |-> << "allow", tcontext, tclass,
                          [i \in DOMAIN permsList |-> Head(permsList[i])] >>,
              err |-> FALSE]

writeLineFromKeyVal(sb, key, val) ==
    LET t == targetClassCtx(sb, key)
    IN  IF t.tclass = "" \/ t.tcontext = ""
        THEN [line |-> <<>>, err |-> TRUE]
        ELSE policyLine(t.tclass, t.tcontext, val)

\* sb.permMap[key]: nil for a key the map does not hold
PermsOf(sb, key) ==
    IF key \in DOMAIN sb.permMap THEN sb.permMap[key] ELSE {}

\* the policy text as its sequence of lines, the header first
Format(sb) ==
    LET keys == SortStrings(sb.keys)
        out == [i \in DOMAIN keys |->
                   writeLineFromKeyVal(sb, keys[i], PermsOf(sb, keys[i]))]
    IN  IF \E i \in DOMAIN out : out[i].err
        THEN [policy |-> <<>>, err |-> TRUE]
        ELSE [policy |-> << << "blockinherit", "container" >> >>
                            \o [i \in DOMAIN out |-> out[i].line],
              err |-> FALSE]

formatSelinuxProfile(usageCtx, avcList) ==
    LET r == AddAvcList(newSeProfileBuilder(usageCtx), avcList)
    IN  IF r.err THEN [policy |-> <<>>, err |-> TRUE] ELSE Format(r.sb)

\* the characters of the profile ids of this model
Chars(id) ==
    CASE id = "p1-0" -> << "p", "1", "-", "0" >>
      [] id = "p2-0" -> << "p", "2", "-", "0" >>
      [] OTHER -> << "p", "3" >>

\* a LastIndex that finds the first '-'
LastIndex_First(s) ==
    IF \E i \in DOMAIN s : s[i] = "-"
    THEN CHOOSE i \in DOMAIN s :
             s[i] = "-" /\ \A j \in DOMAIN s : s[j] = "-" => i <= j
    ELSE 0

\* strings.LastIndex(s, "-"), 1-based; 0 when there is none
LastIndex(s) ==
    IF \E i \in DOMAIN s : s[i] = "-"
    THEN CHOOSE i \in DOMAIN s :
             s[i] = "-" /\ \A j \in DOMAIN s : s[j] = "-" => j <= i
    ELSE 0

extractProfileName(s) ==
    LET lastIndex == LastIndex(s)
    IN  IF lastIndex = 0 THEN [name |-> <<>>, err |-> TRUE]
        ELSE [name |-> SubSeq(s, 1, lastIndex - 1), err |-> FALSE]

----------------------------------------------------------------------------
(* Pod annotations and their parsing (parseHookAnnotations,                 *)
(* parseLogAnnotations).  An annotation value of a hook key is the sequence *)
(* of its tokens; "-" and " " are tokens of their own.  The value of a log  *)
(* key is the sequence of the characters of a profile id.                   *)

\* strings.HasPrefix on token sequences
HasPrefix(str, prefix) ==
    /\ Len(prefix) <= Len(str)
    /\ SubSeq(str, 1, Len(prefix)) = prefix

\* strings.TrimPrefix
TrimPrefix(str, prefix) ==
    IF HasPrefix(str, prefix) THEN SubSeq(str, Len(prefix) + 1, Len(str))
    ELSE str

\* strings.TrimSpace
RECURSIVE TrimSpace(_)
TrimSpace(str) ==
    IF str = <<>> THEN str
    ELSE IF Head(str) = " " THEN TrimSpace(Tail(str))
    ELSE IF str[Len(str)] = " " THEN TrimSpace(SubSeq(str, 1, Len(str) - 1))
    ELSE str

\* an IsAbs that takes every path for absolute
IsAbs_Always(path) == TRUE

\* filepath.IsAbs
IsAbs(path) == path # <<>> /\ Head(path) = "/"

\* filepath.Base of the paths of this model: what follows the last
\* directory token
RECURSIVE Base(_)
Base(path) ==
    IF \E i \in DOMAIN path : path[i] \in {"/", "rec/", "home/"}
    THEN Base(Tail(path))
    ELSE path

\* config.ProfileRecordingOutputPath
ProfileRecordingOutputPath == << "/", "rec/" >>

\* the prefixes of the annotation keys (config.*AnnotationKey) and the keys
\* of this model; a key is the pair of its prefix and the container name
SeccompProfileRecordHookAnnotationKey == "hook/"
SeccompProfileRecordLogsAnnotationKey == "seccomp-log/"
SelinuxProfileRecordLogsAnnotationKey == "selinux-log/"

HasKeyPrefix(key, prefix) == key[1] = prefix

\* values of hook annotations
HookInDir == << "of:", " ", "/", "rec/", "p", "1", "-", "0", ".json" >>
HookNoDash == << "of:", "/", "rec/", "p", "3", ".json" >>
HookOutside == << "of:", "/", "home/", "x", "-", "0", ".json" >>
HookNoPrefix == << "/", "rec/", "p", "1", "-", "0", ".json" >>
HookRelative == << "of:", "rec/", "p", "1", "-", "0", ".json" >>
HookEmpty == << "of:" >>

Hook(value) == [key |-> << "hook/", "c1" >>, value |-> value]
\* the characters of the value of a log annotation, and back
Value(id) == IF id = "" THEN <<>> ELSE Chars(id)
ProfileId(chars) == CHOOSE id \in {"p1-0", "p2-0", "p3"} : Chars(id) = chars

SeccompLog(id) == [key |-> << "seccomp-log/", "c1" >>, value |-> Value(id)]
SelinuxLog(id) == [key |-> << "selinux-log/", "c1" >>, value |-> Value(id)]

\* the annotation maps of the pods of this model; each holds at least one
\* recording annotation (the event filter isPodWithTraceAnnotation)
AnnotationSets ==
    { {Hook(HookInDir)}, {Hook(HookNoDash)},
      {Hook(HookOutside)}, {Hook(HookNoPrefix)}, {Hook(HookRelative)},
      {Hook(HookEmpty)},
      {SeccompLog("p1-0")}, {SelinuxLog("p1-0")}, {SeccompLog("")},
      {SeccompLog("p3")},
      {SeccompLog("p1-0"), SelinuxLog("p1-0")},
      {Hook(HookInDir), SeccompLog("p1-0")},
      {Hook(HookOutside), SeccompLog("p1-0")},
      {Hook(HookNoPrefix), SeccompLog("p1-0")},
      {Hook(HookInDir), SelinuxLog("")} }

\* the orders in which a range over the map may visit its entries
Orders(annotations) ==
    { o \in [1 .. Cardinality(annotations) -> annotations] :
        \A i, j \in DOMAIN o : i # j => o[i] # o[j] }

errInvalidAnnotation == "invalid Annotation"

\* parseHookAnnotations, visiting the entries in the order given
RECURSIVE parseHookAnnotations(_)
parseHookAnnotations(order) ==
    IF order = <<>> THEN [res |-> <<>>, err |-> "nil"]
    ELSE LET a == Head(order)
             rest == parseHookAnnotations(Tail(order))
             outputFile == TrimSpace(TrimPrefix(a.value, << "of:" >>))
             failed == [res |-> <<>>, err |-> errInvalidAnnotation]
         IN  IF ~HasKeyPrefix(a.key, SeccompProfileRecordHookAnnotationKey)
             THEN rest
             ELSE IF ~HasPrefix(a.value, << "of:" >>) THEN failed
             ELSE IF ~IsAbs(outputFile) THEN failed
             ELSE IF outputFile = <<>> THEN failed
             ELSE IF ~HasPrefix(outputFile, ProfileRecordingOutputPath)
             THEN rest
             ELSE IF rest.err # "nil" THEN rest
             ELSE [res |-> << [kind |-> "SeccompProfile",
                               name |-> outputFile] >> \o rest.res,
                   err |-> "nil"]

\* a parseLogAnnotations that leaves out an annotation without value
RECURSIVE parseLogAnnotations_SkipEmpty(_)
parseLogAnnotations_SkipEmpty(order) ==
    IF order = <<>> THEN [res |-> <<>>, err |-> "nil"]
    ELSE LET a == Head(order)
             rest == parseLogAnnotations_SkipEmpty(Tail(order))
             kind ==
                 IF HasKeyPrefix(a.key, SeccompProfileRecordLogsAnnotationKey)
                 THEN "SeccompProfile"
                 ELSE IF HasKeyPrefix(a.key,
                                      SelinuxProfileRecordLogsAnnotationKey)
                 THEN "SelinuxProfile"
                 ELSE "none"
         IN  IF kind = "none" \/ a.value = <<>> THEN rest
             ELSE [res |-> << [kind |-> kind, name |-> a.value] >>
                               \o rest.res,
                   err |-> "nil"]

\* parseLogAnnotations, visiting the entries in the order given
RECURSIVE parseLogAnnotations(_)
parseLogAnnotations(order) ==
    IF order = <<>> THEN [res |-> <<>>, err |-> "nil"]
    ELSE LET a == Head(order)
             rest == parseLogAnnotations(Tail(order))
             kind ==
                 IF HasKeyPrefix(a.key, SeccompProfileRecordLogsAnnotationKey)
                 THEN "SeccompProfile"
                 ELSE IF HasKeyPrefix(a.key,
                                      SelinuxProfileRecordLogsAnnotationKey)
                 THEN "SelinuxProfile"
                 ELSE "none"
         IN  IF kind = "none" THEN rest
             ELSE IF a.value = <<>>
             THEN [res |-> <<>>, err |-> errInvalidAnnotation]
             ELSE IF rest.err # "nil" THEN rest
             ELSE [res |-> << [kind |-> kind, name |-> a.value] >>
                               \o rest.res,
                   err |-> "nil"]

----------------------------------------------------------------------------
(* State. *)

VARIABLES
    syscalls,   \* Enricher.syscalls: profile -> set of syscall names
    avcs,       \* Enricher.avcs: profile -> set of serialized AVCs
    up,         \* the enricher process is running
    pc,         \* position of the ingest loop
    line,       \* the tail record of the current (or last) iteration
    s,          \* the set loaded by dispatch (local s / a) and what goes in
    nLines,     \* tail records consumed so far
    lineSends,  \* syscall names passed to SendMetric for `line`
    lineIns,    \* inserts completed for `line`
    inserted,   \* per map and profile: the inserts in effect (abstract sets)
    nRpcs,      \* RPCs issued by the client
    resp,       \* the last RPC response the client got
    race,       \* a record/reset race on one profile, while it is observed
    raceSeen,   \* outcomes of the completed record/reset races so far
    rec,        \* the recorder: position and locals of the collection
    cluster,    \* the profile objects of the cluster, by kind and name
    nCollects,  \* collections started so far
    run,        \* Enricher.Run: its environment, progress and return value
    pod,        \* the pod of the request, as the API server holds it
    podsToWatch,  \* RecorderReconciler.podsToWatch: pod -> podToWatch
    out,        \* what the last Reconcile observed, did and returned
    call        \* the last call of a function of the policy builder

vars ==
    << syscalls, avcs, up, pc, line, s, nLines, lineSends, lineIns,
       inserted, nRpcs, resp, race, raceSeen, rec, cluster, nCollects, run,
       pod, podsToWatch, out, call >>

reconciler == << pod, podsToWatch, out >>

recorder == << rec, cluster, nCollects, reconciler, call >>

aggregator == << syscalls, avcs >>

NoRef == [map |-> "none", key |-> NoProfile, val |-> <<>>, attached |-> FALSE]
NoResp ==
    [op |-> "none", profile |-> NoProfile, list |-> <<>>, err |-> FALSE,
     had |-> FALSE, lo |-> {}, hi |-> {}]
NoRace ==
    [on |-> FALSE, key |-> NoProfile, val |-> <<>>, sys |-> EmptyMap,
     avcs |-> EmptyMap, done |-> FALSE]

NoneInserted == [m \in {"syscalls", "avcs"} |-> [p \in Profiles |-> {}]]

\* the recorder between two collections.  For the properties below it notes
\* the observations its snapshots returned and no reset has removed since
\* (seen) and whether the running collection has written its object
\* (written).
NoCollection ==
    [pc |-> "idle", kind |-> "none", id |-> NoProfile, name |-> <<>>,
     list |-> <<>>, result |-> "none", written |-> FALSE,
     seen |-> NoneInserted]

\* Run at process start.  nodeName is the value of NODE_NAME; dialed: Dial
\* was called; conn: the metrics stream is established; serving: the GRPC
\* server goroutine was started; opened: the tail is open; ended: the
\* sequence of tail records has ended, with the terminal reason `reason`;
\* ret: what Run returned; log: the error logs written for the current line.
NotStarted ==
    [nodeName |-> "", dialed |-> FALSE, conn |-> FALSE, serving |-> FALSE,
     opened |-> FALSE, ended |-> FALSE, reason |-> "none", ret |-> "none",
     log |-> <<>>]

\* Run once it reads tail records
Tailing ==
    [NotStarted EXCEPT !.nodeName = "node1", !.dialed = TRUE, !.conn = TRUE,
                       !.serving = TRUE, !.opened = TRUE]

\* the pod before it is created
NoPod == [exists |-> FALSE, phase |-> "none", annotations |-> {}]

\* no Reconcile has run yet
NoOutcome ==
    [observed |-> "none", err |-> "nil", events |-> <<>>, rpcs |-> 0,
     writes |-> 0, collected |-> FALSE, done |-> 0, calls |-> <<>>]

\* no function of the policy builder has been called
NoCall == [fn |-> "none"]

\* the reconciler after Setup: nothing is tracked
InitReconciler ==
    /\ pod = NoPod
    /\ podsToWatch = [n \in {} |-> {}]
    /\ out = NoOutcome

\* New(): empty maps; Run has set up and waits for the first tail record
InitState ==
    /\ syscalls = EmptyMap
    /\ avcs = EmptyMap
    /\ up = TRUE
    /\ pc = "tail"
    /\ line = NoLine
    /\ s = NoRef
    /\ nLines = 0
    /\ lineSends = <<>>
    /\ lineIns = {}
    /\ inserted = NoneInserted
    /\ nRpcs = 0
    /\ resp = NoResp
    /\ race = NoRace
    /\ raceSeen = {}
    /\ rec = NoCollection
    /\ cluster = [k \in {} |-> {}]
    /\ nCollects = 0
    /\ run = Tailing
    /\ InitReconciler

Init == InitState /\ call = NoCall

\* the ingest loop holds a reference to the set stored under (map, p)
Holds(map, p) == s.map = map /\ s.key = p /\ s.attached

\* the ingest loop is inside Insert on the set stored under (map, p): an
\* unsynchronized write to a Go map
Writing(map, p) == pc = "inserting" /\ Holds(map, p)

\* the value an insert in progress on (map, p) adds, as a set
InFlight(map, p) ==
    IF pc \in {"insert", "inserting"} /\ Holds(map, p) THEN {s.val} ELSE {}

\* a dispatch that inserts under (map, p) has started and not yet completed
Recording(map, p) ==
    pc \in {"store", "insert", "inserting"} /\ s.map = map /\ s.key = p

----------------------------------------------------------------------------
(* Ingest loop (Enricher.Run), one action per access to the shared maps. *)

\* one iteration up to the first access to a shared map
RunLine(l) ==
    /\ up /\ pc = "tail" /\ nLines < MaxLines
    /\ LET d == RunBody(l) IN
       /\ lineSends' = d.sends
       /\ s' = IF d.ins.map # "none"
               THEN [map |-> d.ins.map, key |-> d.ins.key, val |-> d.ins.val,
                     attached |-> FALSE]
               ELSE NoRef
       /\ pc' = IF d.ins.map # "none" THEN "store" ELSE "tail"
    /\ line' = l
    /\ nLines' = nLines + 1
    /\ lineIns' = {}
    /\ race' = NoRace
    /\ UNCHANGED << syscalls, avcs, up, inserted, nRpcs, resp, raceSeen >>
    /\ UNCHANGED recorder
    /\ run' = [run EXCEPT !.log = RunLog(l)]

\* s, _ := e.syscalls.LoadOrStore(...) / a, _ := e.avcs.LoadOrStore(...)
StoreStep ==
    /\ up /\ pc = "store"
    /\ syscalls' = IF s.map = "syscalls" THEN LoadOrStore(syscalls, s.key)
                   ELSE syscalls
    /\ avcs' = IF s.map = "avcs" THEN LoadOrStore(avcs, s.key) ELSE avcs
    /\ s' = [s EXCEPT !.attached = TRUE]
    /\ pc' = "insert"
    /\ UNCHANGED << up, line, nLines, lineSends, lineIns, inserted, nRpcs,
                    resp, race, raceSeen >>
    /\ UNCHANGED recorder
    /\ UNCHANGED run

\* Insert begins writing the loaded set
InsertBegin ==
    /\ up /\ pc = "insert"
    /\ pc' = "inserting"
    /\ UNCHANGED << syscalls, avcs, up, line, s, nLines, lineSends, lineIns,
                    inserted, nRpcs, resp, race, raceSeen >>
    /\ UNCHANGED recorder
    /\ UNCHANGED run

\* whether the map holds the value of the racing insert once it completed
RaceOutcome(m) ==
    IF s.key \in DOMAIN m /\ s.val \in m[s.key] THEN "retained" ELSE "lost"

\* Insert returns: the loaded set holds the value.  When the set was removed
\* from the map in between, the map does not see the value.
InsertEnd ==
    /\ up /\ pc = "inserting"
    /\ syscalls' = IF s.map = "syscalls" /\ s.attached
                   THEN Insert(syscalls, s.key, s.val) ELSE syscalls
    /\ avcs' = IF s.map = "avcs" /\ s.attached
               THEN Insert(avcs, s.key, s.val) ELSE avcs
    /\ inserted' = IF s.attached
                   THEN [inserted EXCEPT ![s.map][s.key] = @ \cup {s.val}]
                   ELSE inserted
    /\ lineIns' = {[map |-> s.map, key |-> s.key, val |-> s.val]}
    /\ race' = IF race.on THEN [race EXCEPT !.done = TRUE] ELSE race
    /\ raceSeen' = IF race.on THEN raceSeen \cup {RaceOutcome(syscalls')}
                   ELSE raceSeen
    /\ s' = NoRef
    /\ pc' = "tail"
    /\ UNCHANGED << up, line, nLines, lineSends, nRpcs, resp >>
    /\ UNCHANGED recorder
    /\ UNCHANGED run

----------------------------------------------------------------------------
(* Startup and end of Enricher.Run. *)

\* Run returns err
Return(err) ==
    /\ pc' = "returned"
    /\ run' = [run EXCEPT !.ret = err]

\* what the startup steps leave alone
RunFrame ==
    UNCHANGED << syscalls, avcs, up, line, s, nLines, lineSends, lineIns,
                 inserted, nRpcs, resp, race, raceSeen, recorder >>

\* e.impl.SetTTL on the two caches
RunSetTTL ==
    /\ up /\ pc = "ttl"
    /\ \/ pc' = "env" /\ UNCHANGED run
       \/ Return("set cache timeout")
    /\ RunFrame

\* a start that goes on with an empty node name
RunGetenv_NoCheck ==
    /\ up /\ pc = "env"
    /\ pc' = "dial" /\ UNCHANGED run
    /\ RunFrame

\* nodeName := e.impl.Getenv(config.NodeNameEnvKey)
RunGetenv ==
    /\ up /\ pc = "env"
    /\ IF run.nodeName = ""
       THEN Return("environment variable not set")
       ELSE pc' = "dial" /\ UNCHANGED run
    /\ RunFrame

\* an attempt that goes on without the stream when AuditInc failed
RunConnect_IgnoreAuditInc ==
    /\ up /\ pc = "dial"
    /\ \E outcome \in {"ok", "dial", "auditinc"} :
          IF outcome = "ok"
          THEN /\ pc' = "listen"
               /\ run' = [run EXCEPT !.dialed = TRUE, !.conn = TRUE]
          ELSE /\ pc' = IF outcome = "auditinc" THEN "listen" ELSE "dial"
               /\ run' = [run EXCEPT !.dialed = TRUE]
    /\ RunFrame

\* one attempt of the function util.Retry runs: Dial, then AuditInc.  Every
\* error is retriable, so a failed attempt leaves Run where it was.
RunConnect ==
    /\ up /\ pc = "dial"
    /\ \E outcome \in {"ok", "dial", "auditinc"} :
          IF outcome = "ok"
          THEN /\ pc' = "listen"
               /\ run' = [run EXCEPT !.dialed = TRUE, !.conn = TRUE]
          ELSE /\ pc' = "dial"
               /\ run' = [run EXCEPT !.dialed = TRUE]
    /\ RunFrame

\* util.Retry gives up after a failed attempt and returns its error
RunRetryError ==
    /\ up /\ pc = "dial" /\ run.dialed
    /\ Return("connect to local GRPC server")
    /\ RunFrame

\* startGrpcServer: Listen, then Serve on a goroutine of its own
RunStartGrpcServer ==
    /\ up /\ pc = "listen"
    /\ \/ pc' = "open" /\ run' = [run EXCEPT !.serving = TRUE]
       \/ Return("start GRPC server")
    /\ RunFrame

\* e.impl.TailFile
RunTailFile ==
    /\ up /\ pc = "open"
    /\ \/ pc' = "tail" /\ run' = [run EXCEPT !.opened = TRUE]
       \/ Return("tailing file")
    /\ RunFrame

\* the reasons a tailer ends with
Reasons == {"nil", "tail: file unreadable"}

\* errors.Wrap(reason, "enricher failed"): nil stays nil
Wrap(reason, msg) == IF reason = "nil" THEN "nil" ELSE << msg, reason >>

\* the channel of tail records is closed: the loop ends and Run returns
RunEnd ==
    /\ up /\ pc = "tail"
    /\ \E reason \in Reasons :
          /\ pc' = "returned"
          /\ run' = [run EXCEPT !.ended = TRUE, !.reason = reason,
                                !.ret = Wrap(reason, "enricher failed")]
    /\ RunFrame

Startup ==
    \/ RunSetTTL
    \/ RunGetenv
    \/ RunConnect
    \/ RunRetryError
    \/ RunStartGrpcServer
    \/ RunTailFile

----------------------------------------------------------------------------
(* RPC server: each handler runs on its own goroutine, concurrently with   *)
(* the ingest loop.  The sync.Map operations are atomic; reading a set     *)
(* that the ingest loop is writing is not.                                 *)

\* server side of ResetSyscalls(p).  A set the ingest loop has loaded stays
\* alive as an object of its own, no longer reachable from the map.
ServeResetSyscalls(p) ==
    /\ syscalls' = ResetSyscalls(syscalls, p).m
    /\ s' = IF s.map = "syscalls" /\ s.key = p
            THEN [s EXCEPT !.attached = FALSE] ELSE s
    /\ inserted' = [inserted EXCEPT !["syscalls"][p] = {}]
    /\ race' = IF Recording("syscalls", p) /\ ~race.on
               THEN [on |-> TRUE, key |-> p, val |-> s.val,
                     sys |-> syscalls, avcs |-> avcs, done |-> FALSE]
               ELSE NoRace
    /\ UNCHANGED avcs

\* server side of ResetAvcs(p)
ServeResetAvcs(p) ==
    /\ avcs' = ResetAvcs(avcs, p).m
    /\ s' = IF s.map = "avcs" /\ s.key = p
            THEN [s EXCEPT !.attached = FALSE] ELSE s
    /\ inserted' = [inserted EXCEPT !["avcs"][p] = {}]
    /\ race' = NoRace
    /\ UNCHANGED syscalls

\* the GRPC server of the enricher accepts calls
Serving == up /\ run.serving

\* what a handler may find in the set stored under (map, p).  Without a
\* writer it is the set.  Racing with Insert, the iteration over the Go map
\* may see the new element or not, and may miss elements already stored.
Views(map, m, p) ==
    IF Writing(map, p)
    THEN { [m EXCEPT ![p] = x] : x \in SUBSET (m[p] \cup {s.val}) }
    ELSE {m}

\* the Go runtime detects the concurrent map iteration and map write and
\* ends the process with a fatal error: the in-memory aggregator is gone
Abort ==
    /\ up' = FALSE
    /\ pc' = "dead"
    /\ syscalls' = EmptyMap
    /\ avcs' = EmptyMap
    /\ s' = NoRef
    /\ inserted' = NoneInserted
    /\ race' = NoRace

\* The response of a read as the client gets it.  With it are noted, for
\* the properties below: whether the profile was stored (had), the inserts
\* in effect when the handler ran (lo) and those plus the insert that was
\* in progress on the same set (hi).
Response(op, p, r, m, map) ==
    [op |-> op, profile |-> p, list |-> r.list, err |-> r.err,
     had |-> p \in DOMAIN m,
     lo |-> inserted[map][p], hi |-> inserted[map][p] \cup InFlight(map, p)]

\* the acknowledgement of a reset
Ack(op, p, r, m) ==
    [op |-> op, profile |-> p, list |-> <<>>, err |-> r.err,
     had |-> p \in DOMAIN m, lo |-> {}, hi |-> {}]

\* the connection breaks with the process
Broken(op, p, m) ==
    [op |-> op, profile |-> p, list |-> <<>>, err |-> TRUE,
     had |-> p \in DOMAIN m, lo |-> {}, hi |-> {}]

----------------------------------------------------------------------------
(* An RPC client calling the four methods in any order. *)

RpcSyscalls(p) ==
    /\ Serving /\ nRpcs < MaxRpcs
    /\ \E v \in Views("syscalls", syscalls, p) :
          resp' = Response("Syscalls", p, Syscalls(v, p), syscalls,
                           "syscalls")
    /\ nRpcs' = nRpcs + 1
    /\ UNCHANGED << syscalls, avcs, up, pc, line, s, nLines, lineSends,
                    lineIns, inserted, race, raceSeen >>
    /\ UNCHANGED recorder
    /\ UNCHANGED run

RpcAvcs(p) ==
    /\ Serving /\ nRpcs < MaxRpcs
    /\ \E v \in Views("avcs", avcs, p) :
          resp' = Response("Avcs", p, Avcs(v, p), avcs, "avcs")
    /\ nRpcs' = nRpcs + 1
    /\ UNCHANGED << syscalls, avcs, up, pc, line, s, nLines, lineSends,
                    lineIns, inserted, race, raceSeen >>
    /\ UNCHANGED recorder
    /\ UNCHANGED run

\* a read racing with Insert that the runtime detects
RpcReadAbort(op, map, p) ==
    /\ Serving /\ nRpcs < MaxRpcs
    /\ Writing(map, p)
    /\ Abort
    /\ resp' = Broken(op, p, IF map = "syscalls" THEN syscalls ELSE avcs)
    /\ nRpcs' = nRpcs + 1
    /\ UNCHANGED << line, nLines, lineSends, lineIns, raceSeen >>
    /\ UNCHANGED recorder
    /\ UNCHANGED run

RpcResetSyscalls(p) ==
    /\ Serving /\ nRpcs < MaxRpcs
    /\ ServeResetSyscalls(p)
    /\ resp' = Ack("ResetSyscalls", p, ResetSyscalls(syscalls, p), syscalls)
    /\ nRpcs' = nRpcs + 1
    /\ UNCHANGED << up, pc, line, nLines, lineSends, lineIns, raceSeen >>
    /\ UNCHANGED recorder
    /\ UNCHANGED run

RpcResetAvcs(p) ==
    /\ Serving /\ nRpcs < MaxRpcs
    /\ ServeResetAvcs(p)
    /\ resp' = Ack("ResetAvcs", p, ResetAvcs(avcs, p), avcs)
    /\ nRpcs' = nRpcs + 1
    /\ UNCHANGED << up, pc, line, nLines, lineSends, lineIns, raceSeen >>
    /\ UNCHANGED recorder
    /\ UNCHANGED run

----------------------------------------------------------------------------
(* Specification: ingest loop and RPC handlers running concurrently. *)

Ingest ==
    \/ \E l \in Lines : RunLine(l)
    \/ StoreStep
    \/ InsertBegin
    \/ InsertEnd

Rpc ==
    \/ \E p \in Profiles : RpcSyscalls(p)
    \/ \E p \in Profiles : RpcAvcs(p)
    \/ \E p \in Profiles : RpcReadAbort("Syscalls", "syscalls", p)
    \/ \E p \in Profiles : RpcReadAbort("Avcs", "avcs", p)
    \/ \E p \in Profiles : RpcResetSyscalls(p)
    \/ \E p \in Profiles : RpcResetAvcs(p)

Next == Ingest \/ Rpc

Spec == Init /\ [][Next]_vars

----------------------------------------------------------------------------
(* Specification of a whole run of the enricher, from process start. *)

InitRun ==
    /\ syscalls = EmptyMap
    /\ avcs = EmptyMap
    /\ up = TRUE
    /\ pc = "ttl"
    /\ line = NoLine
    /\ s = NoRef
    /\ nLines = 0
    /\ lineSends = <<>>
    /\ lineIns = {}
    /\ inserted = NoneInserted
    /\ nRpcs = 0
    /\ resp = NoResp
    /\ race = NoRace
    /\ raceSeen = {}
    /\ rec = NoCollection
    /\ cluster = [k \in {} |-> {}]
    /\ nCollects = 0
    /\ \E n \in {"", "node1"} : run = [NotStarted EXCEPT !.nodeName = n]
    /\ InitReconciler
    /\ call = NoCall

NextRun == Startup \/ Ingest \/ RunEnd \/ Rpc

SpecRun == InitRun /\ [][NextRun]_vars

----------------------------------------------------------------------------
(* Sequential specification: every operation runs to completion before the *)
(* next one starts (one whole loop iteration of Run, or one RPC).          *)

\* recordSyscall / recordAvc of the aggregator: LoadOrStore, then Insert
Record(m, ins) == Insert(LoadOrStore(m, ins.key), ins.key, ins.val)

\* one whole iteration of the loop of Run
SeqRun(l) ==
    /\ up /\ pc = "tail" /\ nLines < MaxLines
    /\ LET d == RunBody(l) IN
       /\ lineSends' = d.sends
       /\ syscalls' = IF d.ins.map = "syscalls" THEN Record(syscalls, d.ins)
                      ELSE syscalls
       /\ avcs' = IF d.ins.map = "avcs" THEN Record(avcs, d.ins) ELSE avcs
       /\ lineIns' = IF d.ins.map # "none" THEN {d.ins} ELSE {}
       /\ inserted' = IF d.ins.map # "none"
                      THEN [inserted EXCEPT ![d.ins.map][d.ins.key] =
                                                @ \cup {d.ins.val}]
                      ELSE inserted
    /\ line' = l
    /\ nLines' = nLines + 1
    /\ UNCHANGED << up, pc, s, nRpcs, resp, race, raceSeen >>
    /\ UNCHANGED recorder
    /\ run' = [run EXCEPT !.log = RunLog(l)]

NextSeq ==
    \/ \E l \in Lines : SeqRun(l)
    \/ \E p \in Profiles : RpcSyscalls(p)
    \/ \E p \in Profiles : RpcAvcs(p)
    \/ \E p \in Profiles : RpcResetSyscalls(p)
    \/ \E p \in Profiles : RpcResetAvcs(p)

SpecSeq == Init /\ [][NextSeq]_vars

----------------------------------------------------------------------------
(* Log-mode collection of the recorder (collectLogProfiles and the two     *)
(* collectLog*Profile functions), one action per RPC or cluster write.     *)

Kinds == {"SeccompProfile", "SelinuxProfile", "Unknown"}

\* the profile ids of the pod being collected: one the enricher records
\* under, and one without the timestamp suffix
CollectIds == {"p1-0", "p3"}

\* the usage label of the SelinuxProfile being built
GetPolicyUsage == "my_usage_t"

MapOf(kind) == IF kind = "SeccompProfile" THEN "syscalls" ELSE "avcs"

MapValue(map) == IF map = "syscalls" THEN syscalls ELSE avcs

enricher ==
    << syscalls, avcs, up, pc, line, s, nLines, lineSends, lineIns,
       inserted, race, raceSeen, run >>

client == << nRpcs, resp >>

\* the collection is over with the named result: "ok", or the stage whose
\* error it returns
Failed(stage) == [NoCollection EXCEPT !.result = stage, !.seen = rec.seen]

\* the stored strings a snapshot response stands for
Observed(kind, list) ==
    IF kind = "SeccompProfile"
    THEN { << list[i] >> : i \in DOMAIN list }
    ELSE { Marshal(list[i]).bytes : i \in DOMAIN list }

\* the spec of the object collectLog*Profile writes for a snapshot
SeccompProfileSpec(names) ==
    [defaultAction |-> "SCMP_ACT_ERRNO",
     syscalls |-> << [action |-> "SCMP_ACT_ALLOW", names |-> names] >>]

SelinuxProfileSpec(policy) == [policy |-> policy]

\* controllerutil.CreateOrUpdate by kind and name
CreateOrUpdate(c, key, spec) ==
    [k \in DOMAIN c \cup {key} |-> IF k = key THEN spec ELSE c[k]]

\* one turn of the loop of collectLogProfiles up to the call of
\* collectLog*Profile
CollectStart(kind, id) ==
    /\ rec.pc = "idle" /\ nCollects < MaxCollects
    /\ LET n == extractProfileName(Chars(id))
       IN  rec' = IF n.err THEN Failed("name")
                  ELSE IF kind = "Unknown" THEN Failed("kind")
                  ELSE [rec EXCEPT !.pc = "snapshot", !.kind = kind,
                                   !.id = id, !.name = n.name,
                                   !.result = "none"]
    /\ nCollects' = nCollects + 1
    /\ UNCHANGED << enricher, client, cluster >>
    /\ UNCHANGED << reconciler, call >>

\* enricherClient.Syscalls / enricherClient.Avcs, served by the enricher
CollectSnapshot ==
    /\ rec.pc = "snapshot" /\ Serving
    /\ LET map == MapOf(rec.kind) IN
       \E v \in Views(map, MapValue(map), rec.id) :
          LET r == IF rec.kind = "SeccompProfile" THEN Syscalls(v, rec.id)
                   ELSE Avcs(v, rec.id)
          IN  rec' = IF r.err THEN Failed("snapshot")
                     ELSE [rec EXCEPT
                             !.pc = "write", !.list = r.list,
                             !.seen[map][rec.id] =
                                 @ \cup Observed(rec.kind, r.list)]
    /\ UNCHANGED << enricher, client, cluster, nCollects >>
    /\ UNCHANGED << reconciler, call >>

\* the snapshot handler races with Insert and the runtime ends the enricher
CollectSnapshotAbort ==
    /\ rec.pc = "snapshot" /\ Serving
    /\ Writing(MapOf(rec.kind), rec.id)
    /\ Abort
    /\ rec' = Failed("snapshot")
    /\ UNCHANGED << line, nLines, lineSends, lineIns, raceSeen, client,
                    cluster, nCollects, run >>
    /\ UNCHANGED << reconciler, call >>

\* an RPC that fails without reaching its handler (enricher down, deadline)
CollectRpcError ==
    /\ rec.pc \in {"snapshot", "reset"}
    /\ rec' = Failed(rec.pc)
    /\ UNCHANGED << enricher, client, cluster, nCollects >>
    /\ UNCHANGED << reconciler, call >>

\* formatSelinuxProfile (SELinux only), then CreateOrUpdate succeeds
CollectWrite ==
    /\ rec.pc = "write"
    /\ LET f == formatSelinuxProfile(GetPolicyUsage, rec.list)
           key == << rec.kind, rec.name >>
       IN  IF rec.kind = "SeccompProfile"
           THEN /\ cluster' = CreateOrUpdate(cluster, key,
                                             SeccompProfileSpec(rec.list))
                /\ rec' = [rec EXCEPT !.pc = "reset", !.written = TRUE]
           ELSE IF f.err
           THEN /\ cluster' = cluster
                /\ rec' = Failed("format")
           ELSE /\ cluster' = CreateOrUpdate(cluster, key,
                                             SelinuxProfileSpec(f.policy))
                /\ rec' = [rec EXCEPT !.pc = "reset", !.written = TRUE]
    /\ UNCHANGED << enricher, client, nCollects >>
    /\ UNCHANGED << reconciler, call >>

\* CreateOrUpdate returns an error
CollectWriteError ==
    /\ rec.pc = "write"
    /\ rec.kind = "SelinuxProfile" =>
           ~formatSelinuxProfile(GetPolicyUsage, rec.list).err
    /\ rec' = Failed("write")
    /\ UNCHANGED << enricher, client, cluster, nCollects >>
    /\ UNCHANGED << reconciler, call >>

\* enricherClient.ResetSyscalls / ResetAvcs, served by the enricher; the
\* acknowledgement may still be lost on the way back
CollectReset ==
    /\ rec.pc = "reset" /\ Serving
    /\ IF rec.kind = "SeccompProfile" THEN ServeResetSyscalls(rec.id)
       ELSE ServeResetAvcs(rec.id)
    /\ \E ack \in BOOLEAN :
          rec' = [Failed(IF ack THEN "ok" ELSE "reset") EXCEPT
                    !.seen[MapOf(rec.kind)][rec.id] = {}]
    /\ UNCHANGED << up, pc, line, nLines, lineSends, lineIns, raceSeen,
                    client, cluster, nCollects, run >>
    /\ UNCHANGED << reconciler, call >>

\* the recorder process stops in the middle of a collection
CollectCrash ==
    /\ rec.pc # "idle"
    /\ rec' = Failed("crash")
    /\ UNCHANGED << enricher, client, cluster, nCollects >>
    /\ UNCHANGED << reconciler, call >>

Collect ==
    \/ \E kind \in Kinds, id \in CollectIds : CollectStart(kind, id)
    \/ CollectSnapshot
    \/ CollectSnapshotAbort
    \/ CollectRpcError
    \/ CollectWrite
    \/ CollectWriteError
    \/ CollectReset
    \/ CollectCrash

\* the lines of pods under recording that reach an insert
RecordedLines == { l \in Lines : RunBody(l).ins.map # "none" /\ ~l.sendErr }

\* the ingest loop fed with the lines of pods under recording
IngestRecorded ==
    \/ \E l \in RecordedLines : RunLine(l)
    \/ StoreStep
    \/ InsertBegin
    \/ InsertEnd

NextCollect == IngestRecorded \/ Collect

SpecCollect == Init /\ [][NextCollect]_vars

----------------------------------------------------------------------------
(* The reconciler of the recorder (Reconcile, collectProfile and the        *)
(* collectors), one action per call of Reconcile.  controller-runtime runs  *)
(* one Reconcile at a time.  The collectors work on a record w of what they *)
(* read and change: the maps of the enricher, the objects of the cluster,   *)
(* the events recorded, the RPCs and cluster writes issued, the turns of    *)
(* the collection loop completed (done), and the error returned.            *)

PodName == "ns/pod1"

\* the namespaces and the names of the pods; name.Namespace of the
\* NamespacedName whose String() is n
Namespaces == {"ns", "spo"}
PodNames == {"pod1"}
Namespace(n) ==
    CHOOSE ns \in Namespaces : \E nm \in PodNames : ns \o "/" \o nm = n

\* a call the collectors make: an RPC of the enricher with its request
\* profile, the formatting of a policy, or CreateOrUpdate with the
\* ObjectMeta of the object
Call(op, profile, namespace, name) ==
    [op |-> op, profile |-> profile, namespace |-> namespace, name |-> name]
Request(op, profileID) == Call(op, profileID, "", <<>>)

Phases == {"Pending", "Running", "Succeeded", "Failed", "Unknown"}

reasonProfileRecording == "SeccompProfileRecording"
reasonProfileCreated == "SeccompProfileCreated"
reasonProfileCreationFailed == "CannotCreateSeccompProfile"
reasonAnnotationParsing == "SeccompAnnotationParsing"

Warning(reason, object) ==
    [type |-> "Warning", reason |-> reason, object |-> object]
Normal(reason, object) ==
    [type |-> "Normal", reason |-> reason, object |-> object]

\* the step of a Reconcile that fails, if any: a step of the collection of
\* the profile numbered `at`, or (at = 0) a step before the first profile
NoFault == [at |-> 0, stage |-> "none"]
Faults ==
    {NoFault}
        \cup [at : {0}, stage : {"spod", "disabled", "dial"}]
        \cup [at : 1 .. 2, stage : {"read", "snapshot", "write", "reset"}]

\* F of the value of v, with v evaluated once
Bind(v, F(_)) == CHOOSE y \in { F(x) : x \in {v} } : TRUE

\* the fault of the profile numbered i
FaultOf(fault, i) == IF fault.at = i THEN fault.stage ELSE "none"

\* the spec json.Unmarshal reads from the file of a hook recording
HookProfileSpec(profilePath) == [data |-> profilePath]

\* one turn of the loop of collectLocalProfiles
collectLocalProfile(w, fault, namespace, prf) ==
    LET profilePath == prf.name
        n == extractProfileName(Base(profilePath))
        key == << "SeccompProfile", n.name >>
        upsert == Call("CreateOrUpdate", "", namespace, n.name)
    IN  IF prf.kind # "SeccompProfile"
        THEN [w EXCEPT !.err = "only seccomp profiles supported via a hook"]
        ELSE IF fault = "read" THEN [w EXCEPT !.err = "read profile"]
        ELSE IF n.err THEN [w EXCEPT !.err = "extract profile name"]
        ELSE IF fault = "write"
        THEN [w EXCEPT !.writes = @ + 1,
                       !.calls = Append(@, upsert),
                       !.events =
                           Append(@, Warning(reasonProfileCreationFailed,
                                             key)),
                       !.err = "create seccompProfile resource"]
        ELSE [w EXCEPT !.cluster =
                           CreateOrUpdate(@, key,
                                          HookProfileSpec(profilePath)),
                       !.writes = @ + 1,
                       !.calls = Append(@, upsert),
                       !.events =
                           Append(@, Normal(reasonProfileCreated, key))]

RECURSIVE collectLocalProfilesFrom(_, _, _, _, _)
collectLocalProfilesFrom(w, fault, namespace, profiles, i) ==
    IF i > Len(profiles) THEN w
    ELSE Bind(collectLocalProfile(w, FaultOf(fault, i), namespace,
                                  profiles[i]),
              LAMBDA r : IF r.err # "nil" THEN r
                         ELSE collectLocalProfilesFrom(
                                  [r EXCEPT !.done = @ + 1], fault, namespace,
                                  profiles, i + 1))

collectLocalProfiles(w, fault, namespace, profiles) ==
    collectLocalProfilesFrom(w, fault, namespace, profiles, 1)

\* a collectLogSeccompProfile that writes no object for a recording without
\* syscalls
collectLogSeccompProfile_NoEmpty(w, fault, profileName, namespace, profileID) ==
    Bind(Syscalls(w.syscalls, profileID), LAMBDA response :
    LET key == << "SeccompProfile", profileName >>
        asked == [w EXCEPT !.rpcs = @ + 1,
                           !.calls = Append(@, Request("Syscalls", profileID))]
        upsert == Call("CreateOrUpdate", profileID, namespace, profileName)
        wrote == [asked EXCEPT
                    !.cluster =
                        CreateOrUpdate(@, key,
                                       SeccompProfileSpec(response.list)),
                    !.writes = @ + 1,
                    !.events = Append(@, Normal(reasonProfileCreated, key)),
                    !.rpcs = @ + 1,
                    !.calls = @ \o << upsert,
                                      Request("ResetSyscalls", profileID) >>]
    IN  IF fault = "snapshot" \/ response.err
        THEN [asked EXCEPT !.err = "retrieve syscalls"]
        ELSE IF response.list = <<>> THEN asked
        ELSE IF fault = "write"
        THEN [asked EXCEPT
                !.writes = @ + 1,
                !.calls = Append(@, upsert),
                !.events =
                    Append(@, Warning(reasonProfileCreationFailed, key)),
                !.err = "create seccompProfile resource"]
        ELSE IF fault = "reset"
        THEN [wrote EXCEPT !.err = "reset syscalls"]
        ELSE [wrote EXCEPT !.syscalls = ResetSyscalls(@, profileID).m])

collectLogSeccompProfile(w, fault, profileName, namespace, profileID) ==
    Bind(Syscalls(w.syscalls, profileID), LAMBDA response :
    LET key == << "SeccompProfile", profileName >>
        asked == [w EXCEPT !.rpcs = @ + 1,
                           !.calls = Append(@, Request("Syscalls", profileID))]
        upsert == Call("CreateOrUpdate", profileID, namespace, profileName)
        wrote == [asked EXCEPT
                    !.cluster =
                        CreateOrUpdate(@, key,
                                       SeccompProfileSpec(response.list)),
                    !.writes = @ + 1,
                    !.events = Append(@, Normal(reasonProfileCreated, key)),
                    !.rpcs = @ + 1,
                    !.calls = @ \o << upsert,
                                      Request("ResetSyscalls", profileID) >>]
    IN  IF fault = "snapshot" \/ response.err
        THEN [asked EXCEPT !.err = "retrieve syscalls"]
        ELSE IF fault = "write"
        THEN [asked EXCEPT
                !.writes = @ + 1,
                !.calls = Append(@, upsert),
                !.events =
                    Append(@, Warning(reasonProfileCreationFailed, key)),
                !.err = "create seccompProfile resource"]
        ELSE IF fault = "reset"
        THEN [wrote EXCEPT !.err = "reset syscalls"]
        ELSE [wrote EXCEPT !.syscalls = ResetSyscalls(@, profileID).m])

\* a collectLogSelinuxProfile that writes the object and resets the AVCs
\* although the policy could not be formatted
collectLogSelinuxProfile_NoCheck(w, fault, profileName, namespace, profileID) ==
    Bind(Avcs(w.avcs, profileID), LAMBDA response :
    Bind(formatSelinuxProfile(GetPolicyUsage, response.list), LAMBDA f :
    LET key == << "SelinuxProfile", profileName >>
        asked == [w EXCEPT !.rpcs = @ + 1,
                           !.calls = Append(@, Request("Avcs", profileID))]
        formatted == [asked EXCEPT
                        !.calls = Append(@, Request("Format", profileID))]
        upsert == Call("CreateOrUpdate", profileID, namespace, profileName)
        wrote == [formatted EXCEPT
                    !.cluster =
                        CreateOrUpdate(@, key, SelinuxProfileSpec(f.policy)),
                    !.writes = @ + 1,
                    !.events = Append(@, Normal(reasonProfileCreated, key)),
                    !.rpcs = @ + 1,
                    !.calls = @ \o << upsert, Request("ResetAvcs", profileID) >>]
    IN  IF fault = "snapshot" \/ response.err
        THEN [asked EXCEPT !.err = "retrieve avcs"]
        ELSE IF fault = "write"
        THEN [formatted EXCEPT
                !.writes = @ + 1,
                !.calls = Append(@, upsert),
                !.events =
                    Append(@, Warning(reasonProfileCreationFailed, key)),
                !.err = "create selinuxprofile resource"]
        ELSE IF fault = "reset"
        THEN [wrote EXCEPT !.err = "reset selinuxprofile"]
        ELSE [wrote EXCEPT
                !.avcs = ResetAvcs(@, profileID).m,
                !.err = IF f.err THEN "format selinuxprofile resource"
                        ELSE "nil"]))

collectLogSelinuxProfile(w, fault, profileName, namespace, profileID) ==
    Bind(Avcs(w.avcs, profileID), LAMBDA response :
    Bind(formatSelinuxProfile(GetPolicyUsage, response.list), LAMBDA f :
    LET key == << "SelinuxProfile", profileName >>
        asked == [w EXCEPT !.rpcs = @ + 1,
                           !.calls = Append(@, Request("Avcs", profileID))]
        formatted == [asked EXCEPT
                        !.calls = Append(@, Request("Format", profileID))]
        upsert == Call("CreateOrUpdate", profileID, namespace, profileName)
        wrote == [formatted EXCEPT
                    !.cluster =
                        CreateOrUpdate(@, key, SelinuxProfileSpec(f.policy)),
                    !.writes = @ + 1,
                    !.events = Append(@, Normal(reasonProfileCreated, key)),
                    !.rpcs = @ + 1,
                    !.calls = @ \o << upsert, Request("ResetAvcs", profileID) >>]
    IN  IF fault = "snapshot" \/ response.err
        THEN [asked EXCEPT !.err = "retrieve avcs"]
        ELSE IF f.err
        THEN [formatted EXCEPT
                !.events =
                    Append(@, Warning(reasonProfileCreationFailed, key)),
                !.err = "format selinuxprofile resource"]
        ELSE IF fault = "write"
        THEN [formatted EXCEPT
                !.writes = @ + 1,
                !.calls = Append(@, upsert),
                !.events =
                    Append(@, Warning(reasonProfileCreationFailed, key)),
                !.err = "create selinuxprofile resource"]
        ELSE IF fault = "reset"
        THEN [wrote EXCEPT !.err = "reset selinuxprofile"]
        ELSE [wrote EXCEPT !.avcs = ResetAvcs(@, profileID).m]))

\* one turn of the loop of collectLogProfiles
collectLogProfile(w, fault, namespace, prf) ==
    LET n == extractProfileName(prf.name)
        profileID == ProfileId(prf.name)
    IN  IF n.err THEN [w EXCEPT !.err = "extract profile name"]
        ELSE IF prf.kind = "SeccompProfile"
        THEN collectLogSeccompProfile(w, fault, n.name, namespace, profileID)
        ELSE IF prf.kind = "SelinuxProfile"
        THEN collectLogSelinuxProfile(w, fault, n.name, namespace, profileID)
        ELSE [w EXCEPT !.err = "unrecognized kind"]

RECURSIVE collectLogProfilesFrom(_, _, _, _, _)
collectLogProfilesFrom(w, fault, namespace, profiles, i) ==
    IF i > Len(profiles) THEN w
    ELSE Bind(collectLogProfile(w, FaultOf(fault, i), namespace,
                                profiles[i]),
              LAMBDA r : IF r.err # "nil" THEN r
                         ELSE collectLogProfilesFrom(
                                  [r EXCEPT !.done = @ + 1], fault, namespace,
                                  profiles, i + 1))

collectLogProfiles(w, fault, namespace, profiles) ==
    IF FaultOf(fault, 0) = "spod" THEN [w EXCEPT !.err = "getting SPOD config"]
    ELSE IF FaultOf(fault, 0) = "disabled"
    THEN [w EXCEPT !.err = "log enricher not enabled"]
    ELSE IF FaultOf(fault, 0) = "dial"
    THEN [w EXCEPT !.err = "connecting to local GRPC server"]
    ELSE collectLogProfilesFrom(w, fault, namespace, profiles, 1)

\* sync.Map.Store / Delete on podsToWatch
StorePod(m, n, v) == [k \in DOMAIN m \cup {n} |-> IF k = n THEN v ELSE m[k]]
DeletePod(m, n) == [k \in DOMAIN m \ {n} |-> m[k]]

\* a collectProfile that forgets the pod whatever the collectors return
collectProfile_DeleteAlways(w, watch, n, fault) ==
    IF n \notin DOMAIN watch THEN [w |-> w, watch |-> watch]
    ELSE LET podToWatch == watch[n]
             started == [w EXCEPT !.collected = TRUE]
         IN  Bind(IF podToWatch.recorder = "hook"
                  THEN collectLocalProfiles(started, fault, Namespace(n),
                                            podToWatch.profiles)
                  ELSE IF podToWatch.recorder = "logs"
                  THEN collectLogProfiles(started, fault, Namespace(n),
                                          podToWatch.profiles)
                  ELSE started,
                  LAMBDA r : [w |-> r, watch |-> DeletePod(watch, n)])

\* a collectProfile that keeps the entry of the pod after the collection
collectProfile_KeepEntry(w, watch, n, fault) ==
    IF n \notin DOMAIN watch THEN [w |-> w, watch |-> watch]
    ELSE LET podToWatch == watch[n]
             started == [w EXCEPT !.collected = TRUE]
         IN  Bind(IF podToWatch.recorder = "hook"
                  THEN collectLocalProfiles(started, fault, Namespace(n),
                                            podToWatch.profiles)
                  ELSE IF podToWatch.recorder = "logs"
                  THEN collectLogProfiles(started, fault, Namespace(n),
                                          podToWatch.profiles)
                  ELSE started,
                  LAMBDA r : [w |-> r, watch |-> watch])

\* collectProfile: the record w after it and the map of the tracked pods
collectProfile(w, watch, n, fault) ==
    IF n \notin DOMAIN watch THEN [w |-> w, watch |-> watch]
    ELSE LET podToWatch == watch[n]
             started == [w EXCEPT !.collected = TRUE]
         IN  Bind(IF podToWatch.recorder = "hook"
                  THEN collectLocalProfiles(started, fault, Namespace(n),
                                            podToWatch.profiles)
                  ELSE IF podToWatch.recorder = "logs"
                  THEN collectLogProfiles(started, fault, Namespace(n),
                                          podToWatch.profiles)
                  ELSE started,
                  LAMBDA r : IF r.err # "nil" THEN [w |-> r, watch |-> watch]
                             ELSE [w |-> r, watch |-> DeletePod(watch, n)])

\* a Pending part that stores the entry whatever the log annotations are
ReconcilePending_IgnoreLogError(w, watch, n, order) ==
    LET hook == parseHookAnnotations(order)
        logs == parseLogAnnotations(order)
        warned == [w EXCEPT
                     !.events =
                         Append(@, Warning(reasonAnnotationParsing, n))]
        recording == [w EXCEPT
                        !.events =
                            Append(@, Normal(reasonProfileRecording, n))]
    IN  IF n \in DOMAIN watch THEN [w |-> w, watch |-> watch]
        ELSE IF hook.err # "nil" THEN [w |-> warned, watch |-> watch]
        ELSE IF Len(hook.res) > 0
        THEN [w |-> recording,
              watch |-> StorePod(watch, n, [recorder |-> "hook",
                                            profiles |-> hook.res])]
        ELSE IF Len(logs.res) > 0
        THEN [w |-> recording,
              watch |-> StorePod(watch, n, [recorder |-> "logs",
                                            profiles |-> logs.res])]
        ELSE [w |-> w, watch |-> watch]

\* a Pending part that prefers the log profiles to the hook profiles
ReconcilePending_LogsFirst(w, watch, n, order) ==
    LET hook == parseHookAnnotations(order)
        logs == parseLogAnnotations(order)
        warned == [w EXCEPT
                     !.events =
                         Append(@, Warning(reasonAnnotationParsing, n))]
        recording == [w EXCEPT
                        !.events =
                            Append(@, Normal(reasonProfileRecording, n))]
    IN  IF n \in DOMAIN watch THEN [w |-> w, watch |-> watch]
        ELSE IF hook.err # "nil" THEN [w |-> warned, watch |-> watch]
        ELSE IF logs.err # "nil" THEN [w |-> warned, watch |-> watch]
        ELSE IF Len(logs.res) > 0
        THEN [w |-> recording,
              watch |-> StorePod(watch, n, [recorder |-> "logs",
                                            profiles |-> logs.res])]
        ELSE IF Len(hook.res) > 0
        THEN [w |-> recording,
              watch |-> StorePod(watch, n, [recorder |-> "hook",
                                            profiles |-> hook.res])]
        ELSE [w |-> w, watch |-> watch]

\* a Pending part that parses the annotations of a tracked pod again
ReconcilePending_Retrack(w, watch, n, order) ==
    LET hook == parseHookAnnotations(order)
        logs == parseLogAnnotations(order)
        warned == [w EXCEPT
                     !.events =
                         Append(@, Warning(reasonAnnotationParsing, n))]
        recording == [w EXCEPT
                        !.events =
                            Append(@, Normal(reasonProfileRecording, n))]
    IN  IF hook.err # "nil" THEN [w |-> warned, watch |-> watch]
        ELSE IF logs.err # "nil" THEN [w |-> warned, watch |-> watch]
        ELSE IF Len(hook.res) > 0
        THEN [w |-> recording,
              watch |-> StorePod(watch, n, [recorder |-> "hook",
                                            profiles |-> hook.res])]
        ELSE IF Len(logs.res) > 0
        THEN [w |-> recording,
              watch |-> StorePod(watch, n, [recorder |-> "logs",
                                            profiles |-> logs.res])]
        ELSE [w |-> w, watch |-> watch]

\* a Pending part that stores a log-mode entry also without any profile
ReconcilePending_StoreEmpty(w, watch, n, order) ==
    LET hook == parseHookAnnotations(order)
        logs == parseLogAnnotations(order)
        warned == [w EXCEPT
                     !.events =
                         Append(@, Warning(reasonAnnotationParsing, n))]
        recording == [w EXCEPT
                        !.events =
                            Append(@, Normal(reasonProfileRecording, n))]
    IN  IF n \in DOMAIN watch THEN [w |-> w, watch |-> watch]
        ELSE IF hook.err # "nil" THEN [w |-> warned, watch |-> watch]
        ELSE IF logs.err # "nil" THEN [w |-> warned, watch |-> watch]
        ELSE IF Len(hook.res) > 0
        THEN [w |-> recording,
              watch |-> StorePod(watch, n, [recorder |-> "hook",
                                            profiles |-> hook.res])]
        ELSE [w |-> recording,
              watch |-> StorePod(watch, n, [recorder |-> "logs",
                                            profiles |-> logs.res])]

\* the part of Reconcile for a pod in phase Pending
ReconcilePending(w, watch, n, order) ==
    LET hook == parseHookAnnotations(order)
        logs == parseLogAnnotations(order)
        warned == [w EXCEPT
                     !.events =
                         Append(@, Warning(reasonAnnotationParsing, n))]
        recording == [w EXCEPT
                        !.events =
                            Append(@, Normal(reasonProfileRecording, n))]
    IN  IF n \in DOMAIN watch THEN [w |-> w, watch |-> watch]
        ELSE IF hook.err # "nil" THEN [w |-> warned, watch |-> watch]
        ELSE IF logs.err # "nil" THEN [w |-> warned, watch |-> watch]
        ELSE IF Len(hook.res) > 0
        THEN [w |-> recording,
              watch |-> StorePod(watch, n, [recorder |-> "hook",
                                            profiles |-> hook.res])]
        ELSE IF Len(logs.res) > 0
        THEN [w |-> recording,
              watch |-> StorePod(watch, n, [recorder |-> "logs",
                                            profiles |-> logs.res])]
        ELSE [w |-> w, watch |-> watch]

\* what r.client.Get answers
Observation(get) ==
    IF get = "error" THEN "GetError"
    ELSE IF ~pod.exists THEN "NotFound"
    ELSE pod.phase

\* a Reconcile that also starts tracking a pod it observes Running
ReconcileBody_TrackRunning(w, watch, n, observed, order, fault) ==
    LET removed == collectProfile(w, watch, n, fault)
    IN  CASE observed = "GetError" ->
               [w |-> [w EXCEPT !.err = "cannot get pod"], watch |-> watch]
          [] observed = "NotFound" -> removed
          [] observed \in {"Pending", "Running"} ->
               ReconcilePending(w, watch, n, order)
          [] observed = "Succeeded" -> removed
          [] OTHER -> [w |-> w, watch |-> watch]

\* a Reconcile that also collects for a pod it observes Failed
ReconcileBody_CollectFailed(w, watch, n, observed, order, fault) ==
    LET removed == collectProfile(w, watch, n, fault)
    IN  CASE observed = "GetError" ->
               [w |-> [w EXCEPT !.err = "cannot get pod"], watch |-> watch]
          [] observed = "NotFound" -> removed
          [] observed = "Pending" -> ReconcilePending(w, watch, n, order)
          [] observed \in {"Succeeded", "Failed"} -> removed
          [] OTHER -> [w |-> w, watch |-> watch]

\* a Reconcile that tracks a pod it first observes Succeeded and collects
\* for it at once
ReconcileBody_LateTrack(w, watch, n, observed, order, fault) ==
    LET removed == collectProfile(w, watch, n, fault)
    IN  CASE observed = "GetError" ->
               [w |-> [w EXCEPT !.err = "cannot get pod"], watch |-> watch]
          [] observed = "NotFound" -> removed
          [] observed = "Pending" -> ReconcilePending(w, watch, n, order)
          [] observed = "Succeeded" ->
               collectProfile(w, ReconcilePending(w, watch, n, order).watch,
                              n, fault)
          [] OTHER -> [w |-> w, watch |-> watch]

\* the body of Reconcile for the observation `observed`
ReconcileBody(w, watch, n, observed, order, fault) ==
    LET removed == collectProfile(w, watch, n, fault)
    IN  CASE observed = "GetError" ->
               [w |-> [w EXCEPT !.err = "cannot get pod"], watch |-> watch]
          [] observed = "NotFound" -> removed
          [] observed = "Pending" -> ReconcilePending(w, watch, n, order)
          [] observed = "Succeeded" -> removed
          [] OTHER -> [w |-> w, watch |-> watch]

\* the faults that differ in effect for the pod tracked under n
FaultsFor(watch, n, observed) ==
    IF n \in DOMAIN watch /\ observed \in {"NotFound", "Succeeded"}
    THEN { f \in Faults :
             /\ f.at <= Len(watch[n].profiles)
             /\ watch[n].recorder = "hook" =>
                    f.at # 0 /\ f.stage \in {"read", "write"}
             /\ watch[n].recorder = "logs" => f.stage # "read" } \cup {NoFault}
    ELSE {NoFault}

\* the state Reconcile leaves for the pod observed by get, with its
\* annotations iterated in order and the fault of this call
ReconcileStep(n, get, order, fault) ==
    LET observed == Observation(get) IN
    \E w0 \in {[syscalls |-> syscalls, avcs |-> avcs,
                cluster |-> cluster, events |-> <<>>, rpcs |-> 0,
                writes |-> 0, collected |-> FALSE, done |-> 0,
                calls |-> <<>>, err |-> "nil"]} :
        \E r \in {ReconcileBody(w0, podsToWatch, n, observed, order, fault)} :
        /\ syscalls' = r.w.syscalls
        /\ avcs' = r.w.avcs
        /\ cluster' = r.w.cluster
        /\ podsToWatch' = r.watch
        /\ out' = [observed |-> observed, err |-> r.w.err,
                   events |-> r.w.events, rpcs |-> r.w.rpcs,
                   writes |-> r.w.writes,
                   collected |-> r.w.collected, done |-> r.w.done,
                   calls |-> r.w.calls]

\* one call of Reconcile for the pod
Reconcile(n) ==
    /\ pod.phase # "none"
    /\ \E get \in {"ok", "error"}, order \in Orders(pod.annotations) :
         \E fault \in FaultsFor(podsToWatch, n, Observation(get)) :
             ReconcileStep(n, get, order, fault)
    /\ UNCHANGED << up, pc, line, s, nLines, lineSends, lineIns, inserted,
                    nRpcs, resp, race, raceSeen, rec, nCollects, run, pod,
                    call >>

\* a call of Reconcile that meets no failure of the API server, of the
\* enricher or of the file system: the retry of a requeued request
ReconcileRetry(n) ==
    /\ pod.phase # "none"
    /\ \E order \in Orders(pod.annotations) :
         ReconcileStep(n, "ok", order, NoFault)
    /\ UNCHANGED << up, pc, line, s, nLines, lineSends, lineIns, inserted,
                    nRpcs, resp, race, raceSeen, rec, nCollects, run, pod,
                    call >>

\* the pod is created on this node with recording annotations
PodCreate(annotations) ==
    /\ pod = NoPod
    /\ pod' = [exists |-> TRUE, phase |-> "Pending",
               annotations |-> annotations]
    /\ UNCHANGED << enricher, client, rec, cluster, nCollects, podsToWatch,
                    out, call >>

\* the phases a pod may enter from a phase; it never returns to Pending
PhaseNext(phase) ==
    CASE phase = "Pending" -> {"Running", "Failed", "Unknown"}
      [] phase = "Running" -> {"Succeeded", "Failed", "Unknown"}
      [] phase = "Unknown" -> {"Running", "Succeeded", "Failed"}
      [] OTHER -> {}

PodPhase(phase) ==
    /\ pod.exists /\ phase \in PhaseNext(pod.phase)
    /\ pod' = [pod EXCEPT !.phase = phase]
    /\ UNCHANGED << enricher, client, rec, cluster, nCollects, podsToWatch,
                    out, call >>

\* the edits of the annotations of this model: a log annotation replaces
\* what was there
Edits(annotations) == { {SeccompLog("p1-0")} }

\* the annotations of the pod are edited
PodAnnotate(annotations) ==
    /\ pod.exists /\ annotations # pod.annotations
    /\ annotations \in Edits(pod.annotations)
    /\ pod' = [pod EXCEPT !.annotations = annotations]
    /\ UNCHANGED << enricher, client, rec, cluster, nCollects, podsToWatch,
                    out, call >>

\* the pod is deleted
PodDelete ==
    /\ pod.exists
    /\ pod' = [pod EXCEPT !.exists = FALSE]
    /\ UNCHANGED << enricher, client, rec, cluster, nCollects, podsToWatch,
                    out, call >>

\* the lines the enricher reads for the profile of the pod
PodLines ==
    { l \in RecordedLines :
        /\ RunBody(l).ins.key = "p1-0"
        /\ l.type = "seccomp" => l.systemCallID = 0
        /\ l.type = "selinux" => l.avc.perm # InvalidUTF8 }

NextReconcile ==
    \/ \E l \in PodLines : SeqRun(l)
    \/ \E a \in AnnotationSets : PodCreate(a)
    \/ \E phase \in Phases : PodPhase(phase)
    \/ \E a \in Edits(pod.annotations) : PodAnnotate(a)
    \/ PodDelete
    \/ Reconcile(PodName)

SpecReconcile == Init /\ [][NextReconcile]_vars

\* the reconciler while the audit log is silent
NextReconcileQuiet ==
    \/ \E a \in AnnotationSets : PodCreate(a)
    \/ \E phase \in Phases : PodPhase(phase)
    \/ \E a \in Edits(pod.annotations) : PodAnnotate(a)
    \/ PodDelete
    \/ Reconcile(PodName)

\* the reconciler whose requests are retried until one runs without a
\* transient failure
SpecReconcileFair ==
    Init /\ [][NextReconcileQuiet]_vars /\ WF_vars(ReconcileRetry(PodName))

----------------------------------------------------------------------------
(* The policy builder and extractProfileName applied to bounded inputs.    *)
(* Each behaviour starts with one call and its arguments; the step of the   *)
(* called function records what it returns.                                 *)

MaxAvcs == 3
MaxNameLen == 4

\* the usage labels a SelinuxProfile is built for; the first sorts before
\* every target type of this model
UsageContexts == {"a_usage_t", "my_usage_t"}

BuilderAvc(tclass, tcontext, perm) ==
    [perm |-> perm, scontext |-> "system_u:system_r:container_t:s0",
     tcontext |-> tcontext, tclass |-> tclass]

\* the AVCs handed to the builder: two permissions on one key, a second
\* class, the sentinel type, a context of exactly three fields, contexts of
\* one and two fields, an empty type and an empty class
BuilderAvcs ==
    { BuilderAvc("file", "system_u:object_r:bin_t:s0", "read"),
      BuilderAvc("file", "system_u:object_r:bin_t:s0", "write"),
      BuilderAvc("dir", "system_u:object_r:bin_t:s0", "read"),
      BuilderAvc("file", "system_u:system_r:selinuxrecording.process:s0",
                 "read"),
      BuilderAvc("file", "system_u:object_r:bin_t", "close"),
      BuilderAvc("file", "bin_t", "read"),
      BuilderAvc("file", "system_u:object_r", "read"),
      BuilderAvc("file", "::", "read"),
      BuilderAvc("", "system_u:object_r:bin_t:s0", "read") }

AvcLists == UNION { [1 .. n -> BuilderAvcs] : n \in 0 .. MaxAvcs }

\* the builder after AddAvcList on a fresh one
BuiltFrom(usageCtx, avcList) ==
    AddAvcList(newSeProfileBuilder(usageCtx), avcList)

\* builders as AddAvcList leaves them, and builders one of whose keys has
\* an empty permission set or none in permMap
Emptied(sb, key) == [sb EXCEPT !.permMap[key] = {}]
Dropped(sb, key) ==
    [sb EXCEPT !.permMap = [k \in DOMAIN @ \ {key} |-> @[k]]]
Built ==
    { BuiltFrom(u, l).sb :
        << u, l >> \in { x \in UsageContexts \X AvcLists :
                           ~BuiltFrom(x[1], x[2]).err } }
Builders ==
    Built
        \cup { Emptied(x[1], x[2]) :
                 x \in { y \in Built \X { << c, t >> :
                                             c \in {"file", "dir", ""},
                                             t \in {"bin_t", "",
                                                    SelinuxPermissiveProfile} } :
                           y[2] \in DOMAIN y[1].permMap } }
        \cup { Dropped(x[1], x[2]) :
                 x \in { y \in Built \X { << c, t >> :
                                             c \in {"file", "dir", ""},
                                             t \in {"bin_t", "",
                                                    SelinuxPermissiveProfile} } :
                           y[2] \in DOMAIN y[1].permMap } }

MaxAnnotations == 2

\* the annotations a pod may carry: hook, seccomp-log and selinux-log keys
\* of two containers and a key without recording prefix
Annotation(prefix, container, value) ==
    [key |-> << prefix, container >>, value |-> value]
AnnotationPool ==
    { Annotation("hook/", "c1", v) :
        v \in {HookInDir, HookNoDash, HookOutside, HookNoPrefix,
               HookRelative, HookEmpty, <<>>} }
        \cup { Annotation("hook/", "c2", v) :
                 v \in {HookNoDash, HookOutside, HookRelative,
                        << "of:", " " >>} }
        \cup { Annotation(k, "c1", Value(id)) :
                 k \in {"seccomp-log/", "selinux-log/"},
                 id \in {"p1-0", ""} }
        \cup { Annotation("seccomp-log/", "c2", Value("p3")),
               Annotation("app/", "c1", HookNoPrefix),
               Annotation("app/", "c2", <<>>) }

\* the annotation maps of up to MaxAnnotations entries (one value per key)
\* and the orders a range may visit them in
AnnotationMaps ==
    { m \in SUBSET AnnotationPool :
        /\ Cardinality(m) <= MaxAnnotations
        /\ \A a, b \in m : a.key = b.key => a = b }
AnnotationOrders == UNION { Orders(m) : m \in AnnotationMaps }

\* what Setup meets: the result of client.New, the value of NODE_NAME, the
\* result of c.Get for the node of that name (a node without name is never
\* found), the addresses in the status of the node and the result of
\* Complete
MaxAddresses == 2
errGetClient == "cannot get client connection"
errGetNode == "cannot get node object"
AddressTypes == {"InternalIP", "Hostname", "ExternalIP"}
NodeAddresses ==
    UNION { [1 .. n -> [type : AddressTypes, address : {"10.0.0.1"}]] :
              n \in 0 .. MaxAddresses }
SetupInputs ==
    { i \in [new : {"nil", "no config"}, nodeName : {"", "node1"},
             get : {"nil", "not found", "forbidden"},
             addresses : NodeAddresses, complete : {"nil", "no kind"}] :
        i.nodeName = "" => i.get # "nil" }

\* the addresses Setup keeps: the first internal one
InternalAddresses(addresses) ==
    LET internal == SelectSeq(addresses, LAMBDA a : a.type = "InternalIP")
    IN  IF internal = <<>> THEN <<>> ELSE << Head(internal).address >>

SetupResult(err, nodeAddresses, registered) ==
    [err |-> err, nodeAddresses |-> nodeAddresses, registered |-> registered]

\* RecorderReconciler.Setup: err is the result of client.New, also where
\* the failure of c.Get is wrapped
Setup(in) ==
    LET err == in.new
        nodeAddresses == InternalAddresses(in.addresses)
    IN  IF err # "nil" THEN SetupResult(Wrap(err, errGetClient), <<>>, FALSE)
        ELSE IF in.get # "nil"
        THEN SetupResult(Wrap(err, errGetNode), <<>>, FALSE)
        ELSE IF Len(nodeAddresses) = 0
        THEN SetupResult("Unable to get node's internal Address", <<>>,
                         FALSE)
        ELSE SetupResult(in.complete, nodeAddresses, in.complete = "nil")

PermSets == SUBSET {"read", "write"}
Contexts == { a.tcontext : a \in BuilderAvcs } \cup {""}
NameChars == {"a", "-"}
Names == UNION { [1 .. n -> NameChars] : n \in 0 .. MaxNameLen }

\* a call that has not returned yet
Pending(fn, arg) == [fn |-> fn, arg |-> arg, done |-> FALSE, res |-> <<>>]

BuilderCalls ==
    { Pending("formatSelinuxProfile", [usageCtx |-> u, avcList |-> l]) :
        u \in UsageContexts, l \in AvcLists }
        \cup { Pending("Format", sb) : sb \in Builders }
        \cup { Pending("policyLine",
                       [tclass |-> "file", tcontext |-> "bin_t",
                        perms |-> p]) : p \in PermSets }
        \cup { Pending("ctxt2type", c) : c \in Contexts }
        \cup { Pending("extractProfileName", n) : n \in Names }
        \cup { Pending("parseHookAnnotations", o) : o \in AnnotationOrders }
        \cup { Pending("Setup", i) : i \in SetupInputs }
        \cup { Pending("parseLogAnnotations", o) : o \in AnnotationOrders }

InitBuilder == InitState /\ call \in BuilderCalls

Returns(fn, res) ==
    /\ call.fn = fn /\ ~call.done
    /\ call' = [call EXCEPT !.done = TRUE, !.res = res]
    /\ UNCHANGED << enricher, client, rec, cluster, nCollects, reconciler >>

\* formatSelinuxProfile on a fresh builder; sb and addErr are the builder
\* and the error AddAvcList leaves
CallFormatSelinuxProfile ==
    /\ call.fn = "formatSelinuxProfile"
    /\ \E added \in {BuiltFrom(call.arg.usageCtx, call.arg.avcList)},
          f \in {formatSelinuxProfile(call.arg.usageCtx,
                                      call.arg.avcList)} :
           Returns("formatSelinuxProfile",
                   [sb |-> added.sb, addErr |-> added.err,
                    policy |-> f.policy, err |-> f.err])

CallFormat ==
    /\ call.fn = "Format"
    /\ Returns("Format", Format(call.arg))

CallPolicyLine ==
    /\ call.fn = "policyLine"
    /\ Returns("policyLine",
               policyLine(call.arg.tclass, call.arg.tcontext,
                          call.arg.perms))

CallCtxt2type ==
    /\ call.fn = "ctxt2type"
    /\ Returns("ctxt2type", ctxt2type(call.arg))

CallExtractProfileName ==
    /\ call.fn = "extractProfileName"
    /\ Returns("extractProfileName", extractProfileName(call.arg))

CallParseHookAnnotations ==
    /\ call.fn = "parseHookAnnotations"
    /\ Returns("parseHookAnnotations", parseHookAnnotations(call.arg))

CallParseLogAnnotations ==
    /\ call.fn = "parseLogAnnotations"
    /\ Returns("parseLogAnnotations", parseLogAnnotations(call.arg))

CallSetup ==
    /\ call.fn = "Setup"
    /\ Returns("Setup", Setup(call.arg))

NextBuilder ==
    \/ CallSetup
    \/ CallParseHookAnnotations
    \/ CallParseLogAnnotations
    \/ CallFormatSelinuxProfile
    \/ CallFormat
    \/ CallPolicyLine
    \/ CallCtxt2type
    \/ CallExtractProfileName

SpecBuilder == InitBuilder /\ [][NextBuilder]_vars

----------------------------------------------------------------------------
(* Properties. *)

\* the last tail record has been processed to the end of the loop body
Completed == up /\ pc = "tail" /\ line.type # "none"

\* an RPC of the client was served in this step
Served(op) == nRpcs' = nRpcs + 1 /\ resp'.op = op

\* the keys other than p hold in m2 what they held in m1
Untouched(m1, m2, p) ==
    \A q \in Profiles \ {p} :
        /\ q \in DOMAIN m1 <=> q \in DOMAIN m2
        /\ q \in DOMAIN m1 => m1[q] = m2[q]

\* the set elements a read response stands for
Elems(r) ==
    IF r.op = "Syscalls" THEN { <<r.list[i]>> : i \in DOMAIN r.list }
    ELSE { Marshal(r.list[i]).bytes : i \in DOMAIN r.list }

\* C1: in every sequence of whole recordSyscall, Syscalls and ResetSyscalls
\* operations, a Syscalls(p) response is never an error and lists exactly
\* the names inserted for p since the last ResetSyscalls(p) (or the start),
\* each once, in ascending order; with no such insert it is the empty list.
C1_SyscallsSnapshot ==
    resp.op = "Syscalls" =>
        /\ ~resp.err
        /\ Elems(resp) = resp.lo
        /\ \A i \in 1 .. Len(resp.list) - 1 :
              StrLess(resp.list[i], resp.list[i + 1])

\* C1 witness: a snapshot that lists two names
C1_Witness ==
    /\ resp.op = "Syscalls"
    /\ Len(resp.list) = 2
    /\ nLines = MaxLines

\* C2: every Syscalls/Avcs response is the response of a sequential order of
\* the operations: it is no error (unless the set holds an element that
\* cannot be decoded), it is sorted, it holds every insert that completed
\* before it with no reset in between, and beyond those at most the insert
\* running concurrently.
C2_Linearizable ==
    resp.op \in {"Syscalls", "Avcs"} =>
        /\ resp.err => resp.op = "Avcs" /\ <<>> \in resp.hi
        /\ ~resp.err =>
              /\ resp.lo \subseteq Elems(resp)
              /\ Elems(resp) \subseteq resp.hi
              /\ Len(resp.list) = Cardinality(Elems(resp))

\* C3: a reset empties exactly the set it names: ResetSyscalls(p) leaves the
\* syscall sets of the other profiles and every AVC set unchanged, and
\* ResetAvcs(p) the AVC sets of the other profiles and every syscall set.
C3_ResetFrame ==
    [][ /\ Served("ResetSyscalls") =>
              /\ resp'.profile \notin DOMAIN syscalls'
              /\ Untouched(syscalls, syscalls', resp'.profile)
              /\ avcs' = avcs
        /\ Served("ResetAvcs") =>
              /\ resp'.profile \notin DOMAIN avcs'
              /\ Untouched(avcs, avcs', resp'.profile)
              /\ syscalls' = syscalls ]_vars

\* C3 witness: ResetSyscalls(p) removed the syscall set of p while p had
\* AVCs, which are still there
C3_Witness ==
    /\ resp.op = "ResetSyscalls"
    /\ resp.had
    /\ resp.profile \in DOMAIN avcs
    /\ avcs[resp.profile] # {}

\* the object a collection writes for the snapshot it holds
Materialized ==
    IF rec.kind = "SeccompProfile" THEN SeccompProfileSpec(rec.list)
    ELSE SelinuxProfileSpec(
             formatSelinuxProfile(GetPolicyUsage, rec.list).policy)

\* the collection passes its reset RPC to the client stub
ResetIssued == rec.pc = "reset" /\ rec'.result \in {"ok", "reset"}

\* every observation a snapshot returned is still in the set of its profile
\* (or being inserted into it) until a reset of that profile is served
Retained ==
    \A map \in {"syscalls", "avcs"}, p \in Profiles :
        rec.seen[map][p] \subseteq
            Load(MapValue(map), p).value \cup InFlight(map, p)

\* C4: in log-mode collection the reset RPC of a profile is issued only
\* when the create-or-update of the object built from the snapshot has
\* succeeded, and as long as no reset was served (the collection stopped
\* on a snapshot error, a write error or a crash) the set of the profile
\* still holds every observation a snapshot returned.
C4_ResetAfterWrite ==
    /\ [][ ResetIssued =>
              /\ rec.written
              /\ << rec.kind, rec.name >> \in DOMAIN cluster
              /\ cluster[<< rec.kind, rec.name >>] = Materialized ]_vars
    /\ []Retained

\* C5: when a recordSyscall(p, n) and a ResetSyscalls(p) ran concurrently
\* and both completed, the syscall set of p is absent or empty (n lost) or
\* is {n} (n retained): no name stored before the reset survives, and the
\* sets of the other profiles and all AVC sets are as before the reset.
C5_RecordResetRace ==
    race.on /\ race.done =>
        /\ \/ race.key \notin DOMAIN syscalls
           \/ syscalls[race.key] = {}
           \/ syscalls[race.key] = {race.val}
        /\ Untouched(race.sys, syscalls, race.key)
        /\ avcs = race.avcs

\* C5 witness: both outcomes were seen, the last race on a profile that
\* had names stored when the reset began
C5_Witness ==
    /\ raceSeen = {"lost", "retained"}
    /\ race.on /\ race.done
    /\ race.key \in DOMAIN race.sys
    /\ race.sys[race.key] # {}

\* C6: a reset is acknowledged without error and leaves no set under its
\* profile, and a reset of a profile that has no set (as after a reset of
\* the same profile) changes nothing in the aggregator.
C6_ResetIdempotent ==
    [][ /\ Served("ResetSyscalls") =>
              /\ ~resp'.err
              /\ resp'.profile \notin DOMAIN syscalls'
              /\ resp'.profile \notin DOMAIN syscalls =>
                     aggregator' = aggregator
        /\ Served("ResetAvcs") =>
              /\ ~resp'.err
              /\ resp'.profile \notin DOMAIN avcs'
              /\ resp'.profile \notin DOMAIN avcs =>
                     aggregator' = aggregator ]_vars

\* C6 witness: the only line stored a syscall set for p, and the second of
\* two RPCs, ResetSyscalls(p), found no set: the first had removed it
C6_Witness ==
    /\ resp.op = "ResetSyscalls"
    /\ ~resp.had
    /\ ~resp.err
    /\ nRpcs = 2
    /\ nLines = 1
    /\ Completed
    /\ lineIns # {}
    /\ \A i \in lineIns : i.map = "syscalls" /\ i.key = resp.profile

\* the line was attributed and is a Seccomp line whose syscall id has a name
KnownSeccomp(l) ==
    Attributed(l) /\ l.type = "seccomp" /\ l.systemCallID \in DOMAIN SyscallTable

\* the line was attributed and is an SELinux line
AttributedSelinux(l) == Attributed(l) /\ l.type = "selinux"

\* the canonical serialization of an AVC
Canonical(avc) == << avc.perm, avc.scontext, avc.tcontext, avc.tclass >>

\* C7: for an attributed line (a Seccomp line with a known syscall, or an
\* SELinux line), an insert is made if and only if the record-profile is
\* non-empty, and it goes to the set of the line's kind under that profile:
\* the syscall name into the syscall set, the canonical AVC into the AVC
\* set; a Seccomp line sends exactly one metric, an SELinux line none.
C7_DispatchProtocol ==
    Completed /\ (KnownSeccomp(line) \/ AttributedSelinux(line)) =>
        /\ lineIns # {} <=> line.profile # NoProfile
        /\ \A i \in lineIns :
              /\ i.key = line.profile
              /\ line.type = "seccomp" =>
                    /\ i.map = "syscalls"
                    /\ i.val = << SyscallTable[line.systemCallID] >>
              /\ line.type = "selinux" =>
                    /\ i.map = "avcs"
                    /\ i.val = Canonical(line.avc)
        /\ line.type = "seccomp" =>
              lineSends = << SyscallTable[line.systemCallID] >>
        /\ line.type = "selinux" => lineSends = <<>>

\* a loop iteration started in this step
Read == nLines' = nLines + 1

\* the step neither changes the aggregator, nor sends a metric, nor leaves
\* an insert pending, and the loop is back at the tail
Skipped ==
    /\ aggregator' = aggregator
    /\ lineSends' = <<>>
    /\ lineIns' = {}
    /\ s' = NoRef
    /\ pc' = "tail"
    /\ up'

\* C8: a Seccomp line whose syscall id has no name sends no metric and
\* changes nothing in the aggregator, also with a non-empty record-profile,
\* and the loop goes on to the next line.
C8_UnknownSyscallSkipped ==
    [][ ( /\ Read
          /\ Attributed(line')
          /\ line'.type = "seccomp"
          /\ line'.systemCallID \notin DOMAIN SyscallTable )
        => Skipped ]_vars

\* C8 witness: such a line, of a recording container, was skipped and the
\* loop may read on
C8_Witness ==
    /\ Completed
    /\ Attributed(line)
    /\ line.type = "seccomp"
    /\ line.systemCallID \in UnknownSyscallIDs
    /\ line.profile # NoProfile
    /\ nLines < MaxLines

\* the insert a Seccomp line with a known syscall asks for
SyscallIns(l) ==
    [map |-> "syscalls", key |-> l.profile,
     val |-> << SyscallTable[l.systemCallID] >>]

\* C9: when SendMetric fails for a Seccomp line of a recording container,
\* the name is still inserted into the syscall set of the record-profile
\* (the set stored under it holds the name when Insert returns), and the
\* loop goes on to the next line.
C9_SendFailureNotFatal ==
    [][ /\ ( /\ Read /\ KnownSeccomp(line') /\ line'.sendErr
             /\ line'.profile # NoProfile )
           => /\ pc' = "store"
              /\ [map |-> s'.map, key |-> s'.key, val |-> s'.val]
                    = SyscallIns(line')
        /\ ( /\ pc = "inserting" /\ pc' = "tail"
             /\ KnownSeccomp(line) /\ line.sendErr
             /\ line.profile # NoProfile )
           => /\ lineIns' = {SyscallIns(line)}
              /\ s.attached =>
                    /\ line.profile \in DOMAIN syscalls'
                    /\ SyscallIns(line).val \in syscalls'[line.profile] ]_vars

\* C9 witness: after a failed send the name is in the set and the loop may
\* read on
C9_Witness ==
    /\ Completed
    /\ KnownSeccomp(line) /\ line.sendErr
    /\ lineIns = {SyscallIns(line)}
    /\ line.profile \in DOMAIN syscalls
    /\ SyscallIns(line).val \in syscalls[line.profile]
    /\ nLines < MaxLines

\* C10: a line that is not an audit line, or an audit line of a type other
\* than seccomp and AVC, changes nothing in the aggregator and sends no
\* metric.
C10_OtherLinesIgnored ==
    [][ ( Read /\ (~line'.audit \/ line'.type = "other") ) => Skipped ]_vars

\* C10 witness: an attributed line of another type, of a recording
\* container, was processed after a line that stored something
C10_Witness ==
    /\ Completed
    /\ Attributed(line)
    /\ line.type = "other"
    /\ line.profile # NoProfile
    /\ line.profile \in DOMAIN syscalls
    /\ syscalls[line.profile] # {}

\* the line fails in the loop of Run before or at dispatch: a tail record
\* with an error, failed field extraction, a PID without container id, a
\* container id without info, a dispatch error
LineFailure(l) ==
    \/ l.err
    \/ /\ l.audit
       /\ \/ ~l.extract
          \/ l.cid # "ok"
          \/ ~l.info
          \/ l.type \notin {"seccomp", "selinux"}

\* C11: every per-line failure leaves the aggregator unchanged, sends no
\* metric and puts the loop back at the tail for the next record; once the
\* loop runs, Run returns only when the sequence of tail records has ended,
\* and then it returns the tailer's terminal reason (wrapped; nil stays nil).
C11_LoopEndsWithTail ==
    /\ [][ (Read /\ LineFailure(line')) => Skipped ]_vars
    /\ [](pc = "returned" /\ run.opened => run.ended)
    /\ [](run.ended =>
             /\ pc = "returned"
             /\ run.ret = IF run.reason = "nil" THEN "nil"
                          ELSE << "enricher failed", run.reason >>)

\* C11 witness: Run has returned the reason of the tailer after a failed
\* line that followed a line which stored a name
C11_Witness ==
    /\ pc = "returned" /\ run.ended /\ run.ret # "nil"
    /\ LineFailure(line) /\ nLines = 2
    /\ \E p \in DOMAIN syscalls : syscalls[p] # {}

\* the line got as far as the lookup of the container id of its PID
LookedUp(l) == ~l.err /\ l.audit /\ l.extract

\* C12: a line whose PID lookup reports not-exist is dropped without metric,
\* without aggregator change and without error log; a line whose lookup
\* fails otherwise is dropped the same way, but with an error log.
C12_LookupAbsence ==
    [][ (Read /\ LookedUp(line') /\ line'.cid # "ok") =>
            /\ Skipped
            /\ line'.cid = "notexist" => run'.log = <<>>
            /\ line'.cid # "notexist" => run'.log # <<>> ]_vars

\* C12 witness: a not-exist line was dropped after a line that stored a name
C12_Witness ==
    /\ Completed /\ LookedUp(line) /\ line.cid = "notexist"
    /\ run.log = <<>>
    /\ \E p \in DOMAIN syscalls : syscalls[p] # {}

\* C13: with NODE_NAME empty, Run never dials the metrics sink, never starts
\* the RPC server, never opens the tail and reads no line; when it returns,
\* it returns an error.
C13_NodeNameMandatory ==
    run.nodeName = "" =>
        /\ ~run.dialed /\ ~run.conn /\ ~run.serving /\ ~run.opened
        /\ nLines = 0 /\ nRpcs = 0
        /\ pc \in {"ttl", "env", "returned"}
        /\ pc = "returned" => run.ret \notin {"none", "nil"}

\* C13 witness: Run has returned the error about the environment variable
C13_Witness ==
    /\ run.nodeName = "" /\ pc = "returned"
    /\ run.ret = "environment variable not set"

\* C14: as long as the metrics stream is not established, Run is at or
\* before the connection attempts (a failed attempt of any kind leaves it
\* there) or has returned an error; the RPC server is not started, the tail
\* is not open, no line was read and no RPC was served.
C14_MetricsFirst ==
    ~run.conn =>
        /\ ~run.serving /\ ~run.opened
        /\ nLines = 0 /\ nRpcs = 0
        /\ pc \in {"ttl", "env", "dial", "returned"}
        /\ pc = "returned" => run.ret \notin {"none", "nil"}

\* C14 witness: an attempt to connect has failed and Run is about to retry
C14_Witness ==
    /\ pc = "dial" /\ run.dialed /\ ~run.conn
    /\ ~run.serving /\ ~run.opened

\* a step of Reconcile that changed something: neither the pod nor the tail
\* moved
Reconciled == pod' = pod /\ nLines' = nLines

Tracked == PodName \in DOMAIN podsToWatch

\* some visiting order of the annotations of the pod fails to parse
ParseFails ==
    \E order \in Orders(pod.annotations) :
        \/ parseHookAnnotations(order).err # "nil"
        \/ parseLogAnnotations(order).err # "nil"

\* C15: the pod gets an entry in podsToWatch only by a Reconcile that
\* observes it Pending while it has no entry and both its hook and its log
\* annotations parse; when a parse fails for a Pending pod without entry,
\* Reconcile records one warning event on the pod, stores nothing and
\* returns no error.
C15_TrackOnlyParsedPending ==
    [][ /\ (~Tracked /\ Tracked') =>
            /\ Reconciled
            /\ out'.observed = "Pending"
            /\ pod.exists /\ pod.phase = "Pending"
            /\ ~ParseFails
        /\ (Reconciled /\ out'.observed = "Pending" /\ ~Tracked
                /\ ParseFails) =>
            /\ out'.events = << Warning(reasonAnnotationParsing, PodName) >>
            /\ podsToWatch' = podsToWatch
            /\ out'.err = "nil"
            /\ cluster' = cluster /\ aggregator' = aggregator ]_vars

\* a Pending pod whose log annotation is malformed was reconciled
C15_Witness ==
    /\ pod.annotations = {Hook(HookInDir), SelinuxLog("")}
    /\ pod.phase = "Pending"
    /\ out.observed = "Pending"
    /\ out.events = << Warning(reasonAnnotationParsing, PodName) >>
    /\ ~Tracked

\* the pod carries an annotation whose key has the prefix
Carries(prefix) == \E a \in pod.annotations : HasKeyPrefix(a.key, prefix)

HasHookAnnotations == Carries(SeccompProfileRecordHookAnnotationKey)

HasLogAnnotations ==
    \/ Carries(SeccompProfileRecordLogsAnnotationKey)
    \/ Carries(SelinuxProfileRecordLogsAnnotationKey)

\* the pod carries a hook annotation whose file lies in the recording
\* output directory
HasHookInOutputPath ==
    \E a \in pod.annotations :
        /\ HasKeyPrefix(a.key, SeccompProfileRecordHookAnnotationKey)
        /\ HasPrefix(TrimSpace(TrimPrefix(a.value, << "of:" >>)),
                     ProfileRecordingOutputPath)

\* Reconcile handles a Pending pod that has no entry and whose annotations
\* parse
Selects ==
    Reconciled /\ out'.observed = "Pending" /\ ~Tracked /\ ~ParseFails

\* the mode of the entry of the pod after the step; "none" without entry
ModeAfter ==
    IF Tracked' THEN podsToWatch'[PodName].recorder ELSE "none"

\* C16, as the spec states it: hook mode is selected iff the pod carries
\* hook annotations, otherwise log mode iff it carries log annotations,
\* otherwise the pod is dropped; a pod with hook annotations is never put in
\* log mode.
C16_ModeByAnnotations ==
    [][ Selects =>
          ModeAfter = IF HasHookAnnotations THEN "hook"
                       ELSE IF HasLogAnnotations THEN "logs"
                       ELSE "none" ]_vars

\* C16, amended: hook mode is selected iff the pod carries a hook annotation
\* whose file lies in the recording output directory, otherwise log mode
\* iff it carries log annotations, otherwise the pod is dropped.
C16_ModeByCollectableProfiles ==
    [][ Selects =>
          ModeAfter = IF HasHookInOutputPath THEN "hook"
                       ELSE IF HasLogAnnotations THEN "logs"
                       ELSE "none" ]_vars

\* a pod whose only hook annotation names a file outside the output
\* directory is tracked in log mode
C16_Witness ==
    /\ pod.annotations = {Hook(HookOutside), SeccompLog("p1-0")}
    /\ Tracked
    /\ podsToWatch[PodName].recorder = "logs"

\* a profile as parseHookAnnotations / parseLogAnnotations returns them
HookProfile(prf) ==
    /\ prf.kind = "SeccompProfile"
    /\ IsAbs(prf.name)
    /\ HasPrefix(prf.name, ProfileRecordingOutputPath)

LogProfile(prf) ==
    /\ prf.kind \in {"SeccompProfile", "SelinuxProfile"}
    /\ prf.name # <<>>
    /\ ~IsAbs(prf.name)

\* C17: a stored entry holds exactly one mode and a non-empty list of
\* profiles of that mode only, taken from the annotations the pod had when
\* it was stored; while the entry is stored nothing changes it, and a
\* Reconcile that observes the tracked pod Pending again records no event.
C17_ModeFixedAtEntry ==
    /\ [](Tracked =>
            LET e == podsToWatch[PodName] IN
            /\ e.recorder \in {"hook", "logs"}
            /\ e.profiles # <<>>
            /\ e.recorder = "hook" =>
                   \A i \in DOMAIN e.profiles : HookProfile(e.profiles[i])
            /\ e.recorder = "logs" =>
                   \A i \in DOMAIN e.profiles : LogProfile(e.profiles[i]))
    /\ [][ /\ (~Tracked /\ Tracked') =>
                \E order \in Orders(pod.annotations) :
                    podsToWatch'[PodName] \in
                        { [recorder |-> "hook",
                           profiles |-> parseHookAnnotations(order).res],
                          [recorder |-> "logs",
                           profiles |-> parseLogAnnotations(order).res] }
           /\ (Tracked /\ Tracked') =>
                podsToWatch'[PodName] = podsToWatch[PodName]
           /\ (Tracked /\ Reconciled /\ out'.observed = "Pending") =>
                /\ podsToWatch' = podsToWatch
                /\ out'.events = <<>>
                /\ out'.err = "nil" ]_vars

\* a pod tracked in hook mode was observed Pending again after its
\* annotations were replaced by a log annotation
C17_Witness ==
    /\ Tracked
    /\ podsToWatch[PodName].recorder = "hook"
    /\ pod.annotations = {SeccompLog("p1-0")}
    /\ out.observed = "Pending"
    /\ out.events = <<>>

\* the recording mode of the pod; "none" while it has no entry
Mode == IF Tracked THEN podsToWatch[PodName].recorder ELSE "none"

\* once the pod has a mode it never has the other one
OneModePerLifetime ==
    \A m \in {"hook", "logs"} : [](Mode = m => [](Mode \in {m, "none"}))

\* C18, as the spec states it: a pod goes through at most one recording
\* mode in its lifetime, and the mode is chosen by a Reconcile that observes
\* the pod in a phase other than Pending.
C18_ModeAtFirstNonPending ==
    /\ OneModePerLifetime
    /\ [][ (Mode = "none" /\ Mode' # "none") =>
               Reconciled /\ out'.observed \in Phases \ {"Pending"} ]_vars

\* C18, amended: a pod goes through at most one recording mode in its
\* lifetime, and the mode is chosen by a Reconcile that observes the pod
\* Pending; a Reconcile that observes any other phase, Not-Found or an error
\* chooses no mode.
C18_ModeAtPending ==
    /\ OneModePerLifetime
    /\ [][ /\ (Mode = "none" /\ Mode' # "none") =>
                Reconciled /\ out'.observed = "Pending"
           /\ (Reconciled /\ out'.observed # "Pending") =>
                Mode' \in {Mode, "none"} ]_vars

\* the pod, tracked since it was Pending, is observed Running
C18_Witness ==
    /\ Mode # "none"
    /\ pod.exists /\ pod.phase = "Running"
    /\ out.observed = "Running"

\* C19: a Reconcile of a tracked pod attempts the collection exactly when
\* it observes the pod Succeeded or Not-Found; when it observes Pending,
\* Running, Failed or Unknown it issues no aggregator RPC and no cluster
\* write and leaves the entry, the cluster and the aggregator as they were.
C19_CollectOnSucceededOrNotFound ==
    [][ (Reconciled /\ Tracked) =>
          /\ out'.collected <=> out'.observed \in {"Succeeded", "NotFound"}
          /\ out'.observed \in {"Pending", "Running", "Failed", "Unknown"} =>
                /\ out'.rpcs = 0
                /\ out'.writes = 0
                /\ out'.err = "nil"
                /\ podsToWatch' = podsToWatch
                /\ cluster' = cluster
                /\ aggregator' = aggregator ]_vars

\* a tracked pod was observed Failed: nothing was collected and the entry
\* stays
C19_Witness ==
    /\ Tracked
    /\ pod.exists /\ pod.phase = "Failed"
    /\ out.observed = "Failed"
    /\ ~out.collected

\* the cluster object a profile of an entry is written to
ObjectOf(e, prf) ==
    << prf.kind,
       extractProfileName(IF e.recorder = "hook" THEN Base(prf.name)
                          ELSE prf.name).name >>

\* after the step every profile of the entry e has its object in the
\* cluster and, in log mode, no set left in the aggregator
MaterializedAll(e) ==
    /\ out'.writes = Len(e.profiles)
    /\ \A i \in DOMAIN e.profiles :
          /\ ObjectOf(e, e.profiles[i]) \in DOMAIN cluster'
          /\ out'.events[i] =
                 Normal(reasonProfileCreated, ObjectOf(e, e.profiles[i]))
          /\ e.recorder = "logs" =>
                 ProfileId(e.profiles[i].name) \notin
                     DOMAIN (IF e.profiles[i].kind = "SeccompProfile"
                             THEN syscalls' ELSE avcs')
    /\ e.recorder = "logs" => out'.rpcs = 2 * Len(e.profiles)

\* C20: the entry of the pod is removed iff a collection completed the
\* materialization of every profile of the entry; when the materialization
\* of a profile fails the entry stays as it was and Reconcile returns an
\* error.
C20_RemoveIffAllMaterialized ==
    [][ /\ (Tracked /\ ~Tracked') => Reconciled /\ out'.collected
        /\ (Reconciled /\ Tracked /\ out'.collected) =>
              LET e == podsToWatch[PodName] IN
              IF out'.done = Len(e.profiles)
              THEN /\ ~Tracked'
                   /\ out'.err = "nil"
                   /\ MaterializedAll(e)
              ELSE /\ podsToWatch' = podsToWatch
                   /\ out'.err # "nil" ]_vars

\* the collection of an entry with two profiles failed at the second one
C20_Witness ==
    /\ Tracked
    /\ Len(podsToWatch[PodName].profiles) = 2
    /\ out.collected
    /\ out.done = 1
    /\ out.err # "nil"

\* C21: a Reconcile that observes the pod Succeeded or Not-Found while the
\* pod has no entry materializes nothing: no RPC, no cluster write, no
\* event, no change of the tracked pods, the cluster or the aggregator, and
\* it returns no error.
C21_UntrackedNotCollected ==
    [][ (Reconciled /\ ~Tracked
            /\ out'.observed \in {"Succeeded", "NotFound"}) =>
          /\ ~out'.collected
          /\ out'.rpcs = 0
          /\ out'.writes = 0
          /\ out'.events = <<>>
          /\ out'.err = "nil"
          /\ podsToWatch' = podsToWatch
          /\ cluster' = cluster
          /\ aggregator' = aggregator ]_vars

\* a pod with a valid log annotation and recorded syscalls, never tracked,
\* was observed Succeeded
C21_Witness ==
    /\ ~Tracked
    /\ pod.annotations = {SeccompLog("p1-0")}
    /\ pod.exists /\ pod.phase = "Succeeded"
    /\ out.observed = "Succeeded"
    /\ "p1-0" \in DOMAIN syscalls
    /\ cluster = [k \in {} |-> {}]

\* C22: every entry of podsToWatch is eventually removed: once the tracked pod
\* is observable as Succeeded or is deleted, and Reconcile is retried until a
\* call meets no transient failure, the entry is eventually deleted
Collectable == ~pod.exists \/ pod.phase = "Succeeded"

C22_EntryEventuallyRemoved == [](Tracked /\ Collectable => <>~Tracked)

\* r is str with its trailing -<suffix> removed: str is r, a '-' and a
\* suffix that holds no '-'
TrimmedOf(str, r) ==
    \E k \in DOMAIN str :
        /\ str[k] = "-"
        /\ r = SubSeq(str, 1, k - 1)
        /\ \A j \in k + 1 .. Len(str) : str[j] # "-"

\* the prefixes of str
Prefixes(str) == { SubSeq(str, 1, k) : k \in 0 .. Len(str) }

\* the number of calls the profiles before the i-th of the entry e make
\* when each of them is materialized
CallsBefore(e, i) ==
    3 * Cardinality({ j \in 1 .. i - 1 :
                        e.profiles[j].kind = "SeccompProfile" })
        + 4 * Cardinality({ j \in 1 .. i - 1 :
                              e.profiles[j].kind = "SelinuxProfile" })

\* C23: a log-mode Seccomp profile that a Reconcile materializes is asked
\* for and reset under the full annotation value as profile id (Syscalls,
\* then the upsert, then ResetSyscalls), and the SeccompProfile is upserted
\* in the namespace of the pod under the annotation value without its
\* trailing -<suffix>, with default action errno and exactly one allow rule
\* whose names are the list Syscalls returned, also when that list is empty
C23_LogSeccompMaterialized ==
    [][ (Reconciled /\ Tracked /\ out'.collected) =>
            LET e == podsToWatch[PodName] IN
            \A i \in DOMAIN e.profiles :
                (/\ e.recorder = "logs"
                 /\ e.profiles[i].kind = "SeccompProfile"
                 /\ i <= out'.done) =>
                    LET value == e.profiles[i].name
                        id == ProfileId(value)
                        off == CallsBefore(e, i)
                    IN  \E name \in Prefixes(value) :
                          /\ TrimmedOf(value, name)
                          /\ Len(out'.calls) >= off + 3
                          /\ SubSeq(out'.calls, off + 1, off + 3) =
                                << Call("Syscalls", id, "", <<>>),
                                   Call("CreateOrUpdate", id, "ns", name),
                                   Call("ResetSyscalls", id, "", <<>>) >>
                          /\ << "SeccompProfile", name >> \in DOMAIN cluster'
                          /\ cluster'[<< "SeccompProfile", name >>] =
                                [defaultAction |-> "SCMP_ACT_ERRNO",
                                 syscalls |->
                                     << [action |-> "SCMP_ACT_ALLOW",
                                         names |->
                                             Syscalls(syscalls, id).list] >>]
      ]_vars

C23_Witness ==
    /\ out.collected /\ out.err = "nil" /\ out.done = 1
    /\ out.calls = << Call("Syscalls", "p1-0", "", <<>>),
                      Call("CreateOrUpdate", "p1-0", "ns", << "p", "1" >>),
                      Call("ResetSyscalls", "p1-0", "", <<>>) >>
    /\ << "SeccompProfile", << "p", "1" >> >> \in DOMAIN cluster
    /\ cluster[<< "SeccompProfile", << "p", "1" >> >>].syscalls[1].names
           # <<>>
    /\ "p1-0" \notin DOMAIN syscalls

\* C24: a log-mode SELinux profile is collected by Avcs, the formatting of
\* the policy, the upsert and ResetAvcs, in this order; when the formatting
\* fails, no SelinuxProfile is written, ResetAvcs is not called, the AVCs of
\* the aggregator stay as they are and the collection fails with the entry
\* kept
C24_LogSelinuxSteps ==
    [][ (Reconciled /\ Tracked /\ out'.collected) =>
            LET e == podsToWatch[PodName] IN
            \A i \in DOMAIN e.profiles :
                (/\ e.recorder = "logs"
                 /\ e.profiles[i].kind = "SelinuxProfile"
                 /\ Len(out'.calls) >= CallsBefore(e, i) + 2) =>
                    LET value == e.profiles[i].name
                        id == ProfileId(value)
                        off == CallsBefore(e, i)
                        response == Avcs(avcs, id)
                        f == formatSelinuxProfile(GetPolicyUsage,
                                                  response.list)
                    IN  \E name \in Prefixes(value) :
                          /\ TrimmedOf(value, name)
                          /\ SubSeq(out'.calls, off + 1, off + 2) =
                                << Call("Avcs", id, "", <<>>),
                                   Call("Format", id, "", <<>>) >>
                          /\ i <= out'.done =>
                                /\ ~f.err
                                /\ Len(out'.calls) >= off + 4
                                /\ SubSeq(out'.calls, off + 3, off + 4) =
                                      << Call("CreateOrUpdate", id, "ns",
                                              name),
                                         Call("ResetAvcs", id, "", <<>>) >>
                          /\ f.err =>
                                /\ Len(out'.calls) = off + 2
                                /\ out'.writes = i - 1
                                /\ << "SelinuxProfile", name >> \in
                                       DOMAIN cluster' =>
                                      /\ << "SelinuxProfile", name >> \in
                                             DOMAIN cluster
                                      /\ cluster'[<< "SelinuxProfile",
                                                     name >>] =
                                             cluster[<< "SelinuxProfile",
                                                        name >>]
                                /\ avcs' = avcs
                                /\ out'.err # "nil"
                                /\ out'.done = i - 1
                                /\ podsToWatch' = podsToWatch
      ]_vars

C24_Witness ==
    /\ Tracked /\ out.collected
    /\ out.err = "format selinuxprofile resource"
    /\ out.calls = << Call("Avcs", "p1-0", "", <<>>),
                      Call("Format", "p1-0", "", <<>>) >>
    /\ "p1-0" \in DOMAIN avcs
    /\ out.writes = 0
    /\ \A k \in DOMAIN cluster : k[1] # "SelinuxProfile"

\* the positions of the colons of a context, its number of fields and its
\* third field (the text between the second colon and the third, or the
\* end)
Colons(ctx) == { i \in DOMAIN Tokens(ctx) : Tokens(ctx)[i] = ":" }
Fields(ctx) == Cardinality(Colons(ctx)) + 1
Colon(ctx, n) ==
    IF n > Cardinality(Colons(ctx)) THEN Len(Tokens(ctx)) + 1
    ELSE CHOOSE i \in Colons(ctx) :
             Cardinality({ j \in Colons(ctx) : j <= i }) = n
ThirdField(ctx) ==
    IF Colon(ctx, 3) = Colon(ctx, 2) + 1 THEN ""
    ELSE Tokens(ctx)[Colon(ctx, 2) + 1]

Returned(fn) == call.fn = fn /\ call.done

\* an AVC the builder accepts and can write a line for
WellFormed(avc) ==
    /\ Fields(avc.tcontext) >= 3
    /\ ThirdField(avc.tcontext) # ""
    /\ avc.tclass # ""

KeyOf(avc) == << avc.tclass, ThirdField(avc.tcontext) >>

\* the allow line of a key: the target, the class and the sorted
\* permissions of the AVCs of the list with this key
LineOf(usageCtx, avcList, key) ==
    LET perms == List({ << avcList[i].perm >> :
                          i \in { j \in DOMAIN avcList :
                                    KeyOf(avcList[j]) = key } })
    IN  << "allow",
           IF key[2] = "selinuxrecording.process" THEN usageCtx ELSE key[2],
           key[1], [i \in DOMAIN perms |-> Head(perms[i])] >>

\* C25: for well-formed AVCs the policy is the header line followed by
\* exactly one allow line per distinct key "<tclass> <ctxType>", in
\* ascending order of the keys, each with the sorted permissions of the key;
\* several AVCs that share a key yield a single line (the AVCs of a list
\* are taken pairwise distinct, as the set of the aggregator holds them)
C25_OneLinePerKey ==
    (/\ Returned("formatSelinuxProfile")
     /\ \A i \in DOMAIN call.arg.avcList : WellFormed(call.arg.avcList[i])
     /\ \A i, j \in DOMAIN call.arg.avcList :
           call.arg.avcList[i] = call.arg.avcList[j] => i = j) =>
        LET avcList == call.arg.avcList
            keys == List({ KeyOf(avcList[i]) : i \in DOMAIN avcList })
        IN  /\ ~call.res.err
            /\ call.res.policy =
                   << << "blockinherit", "container" >> >>
                       \o [i \in DOMAIN keys |->
                              LineOf(call.arg.usageCtx, avcList, keys[i])]

\* the orders of a list
Reorderings(list) ==
    { [i \in DOMAIN list |-> list[f[i]]] :
        f \in { g \in [DOMAIN list -> DOMAIN list] :
                   \A i, j \in DOMAIN list : g[i] = g[j] => i = j } }

\* C26: the policy is a function of the usage context and of the multiset
\* of the AVCs: every order of the same AVCs, formatted with a fresh
\* builder, gives the same text or fails alike
C26_OrderIndependent ==
    Returned("formatSelinuxProfile") =>
        \A l \in Reorderings(call.arg.avcList) :
            LET f == formatSelinuxProfile(call.arg.usageCtx, l)
            IN  f.err = call.res.err /\ f.policy = call.res.policy

C26_Witness ==
    /\ Returned("formatSelinuxProfile")
    /\ call.arg.avcList =
           << BuilderAvc("file",
                         "system_u:system_r:selinuxrecording.process:s0",
                         "read"),
              BuilderAvc("file", "system_u:object_r:bin_t:s0", "write"),
              BuilderAvc("dir", "system_u:object_r:bin_t:s0", "read") >>
    /\ ~call.res.err
    /\ Len(call.res.policy) = 4
    /\ call.res.policy[2] = << "allow", "bin_t", "dir", << "read" >> >>

\* C27: a key whose target type is the sentinel is written with the usage
\* context as target, every other key with its own type; the lines follow
\* the ascending order of the keys as they were before the substitution
C27_SentinelSubstituted ==
    (Returned("formatSelinuxProfile") /\ ~call.res.err) =>
        LET avcList == call.arg.avcList
            keys == SortStrings([i \in DOMAIN avcList |-> KeyOf(avcList[i])])
        IN  /\ Len(call.res.policy) = Len(keys) + 1
            /\ \A i \in DOMAIN keys :
                  /\ call.res.policy[i + 1][3] = keys[i][1]
                  /\ call.res.policy[i + 1][2] =
                        IF keys[i][2] = "selinuxrecording.process"
                        THEN call.arg.usageCtx ELSE keys[i][2]
                  /\ i > 1 => ~SeqLess(keys[i], keys[i - 1])

C27_Witness ==
    /\ Returned("formatSelinuxProfile")
    /\ call.arg.usageCtx = "a_usage_t"
    /\ call.arg.avcList =
           << BuilderAvc("file",
                         "system_u:system_r:selinuxrecording.process:s0",
                         "read"),
              BuilderAvc("file", "system_u:object_r:bin_t:s0", "read") >>
    /\ call.res.policy =
           << << "blockinherit", "container" >>,
              << "allow", "bin_t", "file", << "read" >> >>,
              << "allow", "a_usage_t", "file", << "read" >> >> >>

\* C28: a target context of fewer than three ':'-separated fields is
\* rejected, AddAvcList fails at the first AVC with such a context and there
\* is no policy text; the type of any other context is exactly its third
\* field
C28_MalformedContextRejected ==
    /\ Returned("ctxt2type") =>
          IF Fields(call.arg) < 3
          THEN call.res.err /\ call.res.type = ""
          ELSE ~call.res.err /\ call.res.type = ThirdField(call.arg)
    /\ Returned("formatSelinuxProfile") =>
          LET avcList == call.arg.avcList
              bad == { i \in DOMAIN avcList :
                         Fields(avcList[i].tcontext) < 3 }
          IN  IF bad = {} THEN ~call.res.addErr
              ELSE /\ call.res.addErr /\ call.res.err
                   /\ call.res.policy = <<>>
                   /\ \A i \in bad : Len(call.res.sb.keys) < i
                   /\ \E i \in bad : Len(call.res.sb.keys) = i - 1

C28_Witness ==
    /\ Returned("formatSelinuxProfile")
    /\ call.arg.avcList =
           << BuilderAvc("file", "system_u:object_r:bin_t:s0", "read"),
              BuilderAvc("file", "system_u:object_r", "read"),
              BuilderAvc("dir", "system_u:object_r:bin_t:s0", "read") >>
    /\ call.res.addErr /\ call.res.err /\ call.res.policy = <<>>
    /\ call.res.sb.keys = << << "file", "bin_t" >> >>

\* C29: a key whose permission set is nil or empty cannot be formatted:
\* policyLine fails on it, and Format returns the empty text and an error,
\* not the lines written before it
C29_NoPermissionsFails ==
    /\ (Returned("policyLine") /\ call.arg.perms = {}) =>
          call.res.err /\ call.res.line = <<>>
    /\ (Returned("policyLine") /\ call.arg.perms # {}) => ~call.res.err
    /\ (Returned("Format")
           /\ \E i \in DOMAIN call.arg.keys :
                 \/ call.arg.keys[i] \notin DOMAIN call.arg.permMap
                 \/ call.arg.permMap[call.arg.keys[i]] = {}) =>
          call.res.err /\ call.res.policy = <<>>

C29_Witness ==
    /\ Returned("Format")
    /\ call.arg.keys = << << "file", "bin_t" >>, << "dir", "bin_t" >> >>
    /\ DOMAIN call.arg.permMap = {<< "file", "bin_t" >>, << "dir", "bin_t" >>}
    /\ call.arg.permMap[<< "dir", "bin_t" >>] = {"read"}
    /\ call.arg.permMap[<< "file", "bin_t" >>] = {}
    /\ call.res.err /\ call.res.policy = <<>>

\* C30: extractProfileName returns the prefix that ends just before the
\* last '-' for every string that holds a '-', and fails for every string
\* that holds none
C30_ExtractProfileName ==
    Returned("extractProfileName") =>
        IF \E i \in DOMAIN call.arg : call.arg[i] = "-"
        THEN ~call.res.err /\ TrimmedOf(call.arg, call.res.name)
        ELSE call.res.err

C30_Witness ==
    /\ Returned("extractProfileName")
    /\ call.arg = << "a", "-", "-", "a" >>
    /\ ~call.res.err /\ call.res.name = << "a", "-" >>

\* p is the output file of the hook value v: v is "of:", spaces, p and
\* spaces, and p neither starts nor ends with a space
IsOutputFileOf(v, p) ==
    /\ v # <<>> /\ v[1] = "of:"
    /\ \E i \in 1 .. Len(v), j \in 1 .. Len(v) + 1 :
          /\ \A k \in 2 .. i : v[k] = " "
          /\ \A k \in j .. Len(v) : v[k] = " "
          /\ p = SubSeq(v, i + 1, j - 1)
          /\ p # <<>> => p[1] # " " /\ p[Len(p)] # " "
          /\ p = <<>> => j <= i + 1
OutputFileOf(v) ==
    CHOOSE p \in { SubSeq(v, i, j) : i \in 1 .. Len(v) + 1,
                                      j \in 0 .. Len(v) } :
        IsOutputFileOf(v, p)

HookKey(a) == a.key[1] = "hook/"

\* the value of a hook annotation that makes the parse fail: no "of:", no
\* path, or a path that does not start at the root
HookInvalid(a) ==
    \/ a.value = <<>> \/ a.value[1] # "of:"
    \/ OutputFileOf(a.value) = <<>>
    \/ OutputFileOf(a.value)[1] # "/"

\* the output file lies in the recording-output directory
HookCollected(a) ==
    /\ ~HookInvalid(a)
    /\ Len(OutputFileOf(a.value)) >= 2
    /\ SubSeq(OutputFileOf(a.value), 1, 2) = << "/", "rec/" >>

\* C31: parseHookAnnotations returns exactly one Seccomp profile per
\* hook-prefixed annotation whose value is "of:" and an absolute path in the
\* recording-output directory, named by that path; hook annotations with an
\* absolute path outside of it are skipped without error; when a hook
\* annotation has no "of:" or an empty or relative path, the parse fails and
\* returns no profile; annotations without the hook prefix are ignored
C31_ParseHookAnnotations ==
    Returned("parseHookAnnotations") =>
        LET order == call.arg
            kept == SelectSeq(order,
                              LAMBDA a : HookKey(a) /\ HookCollected(a))
        IN  IF \E i \in DOMAIN order :
                   HookKey(order[i]) /\ HookInvalid(order[i])
            THEN call.res.err # "nil" /\ call.res.res = <<>>
            ELSE /\ call.res.err = "nil"
                 /\ call.res.res =
                        [i \in DOMAIN kept |->
                            [kind |-> "SeccompProfile",
                             name |-> OutputFileOf(kept[i].value)]]

C31_Witness ==
    /\ Returned("parseHookAnnotations")
    /\ call.arg = << Annotation("hook/", "c2", HookOutside),
                     Annotation("hook/", "c1", HookInDir) >>
    /\ call.res.err = "nil"
    /\ call.res.res =
           << [kind |-> "SeccompProfile",
               name |-> << "/", "rec/", "p", "1", "-", "0", ".json" >>] >>

LogKind(a) ==
    CASE a.key[1] = "seccomp-log/" -> "SeccompProfile"
      [] a.key[1] = "selinux-log/" -> "SelinuxProfile"
      [] OTHER -> "none"

\* C32: parseLogAnnotations returns one profile per annotation whose key has
\* the seccomp-log prefix (kind Seccomp) or the selinux-log prefix (kind
\* SELinux), named by the value of the annotation; when such an annotation
\* has an empty value the parse fails and returns no profile; annotations
\* with neither prefix are ignored
C32_ParseLogAnnotations ==
    Returned("parseLogAnnotations") =>
        LET order == call.arg
            kept == SelectSeq(order, LAMBDA a : LogKind(a) # "none")
        IN  IF \E i \in DOMAIN kept : kept[i].value = <<>>
            THEN call.res.err # "nil" /\ call.res.res = <<>>
            ELSE /\ call.res.err = "nil"
                 /\ call.res.res =
                        [i \in DOMAIN kept |->
                            [kind |-> LogKind(kept[i]),
                             name |-> kept[i].value]]

C32_Witness ==
    /\ Returned("parseLogAnnotations")
    /\ call.arg = << Annotation("selinux-log/", "c1", Value("p1-0")),
                     Annotation("seccomp-log/", "c2", Value("p3")) >>
    /\ call.res.err = "nil"
    /\ call.res.res = << [kind |-> "SelinuxProfile", name |-> Chars("p1-0")],
                         [kind |-> "SeccompProfile", name |-> Chars("p3")] >>

\* the elements stored under p in the AVC map m
StoredAvcs(m, p) == IF p \in DOMAIN m THEN m[p] ELSE {}

\* the element e is a structured record with the four fields of avc
HoldsAvc(e, avc) == ~Unmarshal(e).err /\ Unmarshal(e).avc = avc

\* C33: recording an access vector (perm, scontext, tcontext, tclass) under
\* a profile adds to the AVC set of the profile one element that holds its
\* four fields, and adds nothing when an element with these fields is
\* stored already (so equal vectors are one element and vectors differing
\* in a field are distinct elements); Avcs(profile) returns without error
\* one record per stored element, with the fields of that element
C33_AvcSetElements ==
    [][ /\ ( /\ Read
             /\ Attributed(line')
             /\ line'.type = "selinux"
             /\ line'.profile # NoProfile )
           => LET before == StoredAvcs(avcs, line'.profile)
                  after == StoredAvcs(avcs', line'.profile)
              IN  /\ \E e \in after :
                        HoldsAvc(e, line'.avc) /\ after = before \cup {e}
                  /\ (\E e \in before : HoldsAvc(e, line'.avc))
                        => after = before
        /\ Served("Avcs")
           => LET stored == StoredAvcs(avcs, resp'.profile)
              IN  /\ ~resp'.err
                  /\ Len(resp'.list) = Cardinality(stored)
                  /\ \A e \in stored :
                        \E i \in DOMAIN resp'.list :
                            HoldsAvc(e, resp'.list[i]) ]_vars

\* C34: when the node named by NODE_NAME cannot be retrieved (also with
\* NODE_NAME unset), Setup returns an error that is not nil and does not
\* register the controller
C34_SetupFailsWithoutNode ==
    Returned("Setup") /\ call.arg.get # "nil" =>
        call.res.err # "nil" /\ ~call.res.registered

\* the reset of the running log-mode collection of a SeccompProfile takes
\* effect in this step: the syscall set of its profile is removed
SyscallsResetTakesEffect ==
    /\ rec.pc = "reset" /\ rec.kind = "SeccompProfile"
    /\ rec.id \in DOMAIN syscalls
    /\ rec.id \notin DOMAIN syscalls'

\* the names on the allow list of the SeccompProfile spec
Allowed(spec) ==
    { spec.syscalls[1].names[i] : i \in DOMAIN spec.syscalls[1].names }

\* C35: every syscall name recorded for the profile before the
\* ResetSyscalls of a log-mode collection takes effect is on the allow list
\* of the SeccompProfile that collection wrote, also the names inserted
\* between its Syscalls snapshot and the reset
C35_RecordedNamesMaterialized ==
    [][ SyscallsResetTakesEffect =>
            /\ << rec.kind, rec.name >> \in DOMAIN cluster
            /\ \A e \in syscalls[rec.id] :
                  Head(e) \in Allowed(cluster[<< rec.kind, rec.name >>]) ]_vars

\* what the object under key grants: the syscall names of a SeccompProfile,
\* the (class, type, permission) triples of the lines of a SelinuxProfile
Granted(c, key) ==
    IF key[1] = "SeccompProfile"
    THEN { << n >> : n \in Allowed(c[key]) }
    ELSE UNION { { << c[key].policy[l][3], c[key].policy[l][2],
                      c[key].policy[l][4][i] >> :
                     i \in DOMAIN c[key].policy[l][4] } :
                 l \in 2 .. Len(c[key].policy) }

\* the last Reconcile collected the log-mode entry of the pod, wrote the
\* object under key and returned an error
MaterializedThenFailed(key) ==
    /\ Tracked /\ podsToWatch[PodName].recorder = "logs"
    /\ out.collected /\ out.err # "nil"
    /\ \E i \in DOMAIN out.events :
          out.events[i] = Normal(reasonProfileCreated, key)
    /\ key \in DOMAIN cluster

\* C36: when a log-mode collection of a pod with several profiles failed
\* at a later profile or at a reset and is retried, the object of every
\* profile the first attempt materialized grants after the retry all the
\* syscalls and AVC permissions it granted after the first attempt
C36_RetryKeepsMaterialized ==
    [][ (Reconciled /\ out'.collected) =>
            \A key \in DOMAIN cluster :
                MaterializedThenFailed(key) =>
                    /\ key \in DOMAIN cluster'
                    /\ Granted(cluster, key) \subseteq Granted(cluster', key)
      ]_vars

\* the last Reconcile completed the collection of the pod
CollectionCompleted == out.collected /\ out.err = "nil"

\* C37: once the collection of the pod has completed, a Reconcile that
\* observes the pod Succeeded or Not-Found again (directly after the
\* collection, or later while the pod has no new entry) issues no RPC to
\* the aggregator, no reset and no cluster write, records no event and
\* leaves the aggregator, the cluster and the tracked pods as they are: an
\* entry is materialized successfully at most once
C37_CollectedOnce ==
    [][ ( /\ Reconciled
          /\ CollectionCompleted \/ ~Tracked
          /\ out'.observed \in {"Succeeded", "NotFound"} )
        => /\ out'.calls = <<>>
           /\ out'.rpcs = 0 /\ out'.writes = 0
           /\ ~out'.collected
           /\ out'.events = <<>> /\ out'.err = "nil"
           /\ aggregator' = aggregator
           /\ cluster' = cluster
           /\ ~Tracked' ]_vars

\* C37 witness: the pod was collected (its object is in the cluster and its
\* entry is gone) and a later Reconcile observed it Not-Found and did
\* nothing
C37_Witness ==
    /\ ~Tracked
    /\ << "SeccompProfile", << "p", "1" >> >> \in DOMAIN cluster
    /\ ~pod.exists
    /\ out.observed = "NotFound"
    /\ ~out.collected /\ out.rpcs = 0 /\ out.writes = 0

\* the name is an absolute path in the recording-output directory
InOutputPath(name) ==
    /\ Len(name) >= 2
    /\ name[1] = "/"
    /\ SubSeq(name, 1, 2) = << "/", "rec/" >>

\* C38: every entry of podsToWatch is a hook-mode entry with a non-empty
\* list of Seccomp profiles named by absolute paths in the recording-output
\* directory, or a log-mode entry with a non-empty list of Seccomp or
\* SELinux profiles with non-empty names; no Reconcile returns the errors
\* "only seccomp profiles supported via a hook" or "unrecognized kind"
C38_EntriesWellFormed ==
    /\ \A n \in DOMAIN podsToWatch :
          LET e == podsToWatch[n]
          IN  /\ e.recorder \in {"hook", "logs"}
              /\ e.profiles # <<>>
              /\ e.recorder = "hook" =>
                    \A i \in DOMAIN e.profiles :
                        /\ e.profiles[i].kind = "SeccompProfile"
                        /\ InOutputPath(e.profiles[i].name)
              /\ e.recorder = "logs" =>
                    \A i \in DOMAIN e.profiles :
                        /\ e.profiles[i].kind \in
                               {"SeccompProfile", "SelinuxProfile"}
                        /\ e.profiles[i].name # <<>>
    /\ out.err \notin {"only seccomp profiles supported via a hook",
                       "unrecognized kind"}

\* C38 witness: a pod with a hook annotation and a log annotation is
\* tracked in hook mode with the profile of the hook annotation alone, and a
\* collection of that entry has run
C38_Witness ==
    /\ Tracked
    /\ pod.annotations = {Hook(HookInDir), SeccompLog("p1-0")}
    /\ podsToWatch[PodName] =
           [recorder |-> "hook",
            profiles |-> << [kind |-> "SeccompProfile",
                             name |-> << "/", "rec/", "p", "1", "-", "0",
                                         ".json" >>] >>]
    /\ out.collected

====
